---- MODULE Spec2Model ----
(***************************************************************************)
(* Model of the numerical core of interpol-calc: validation, grid          *)
(* utilities, Lagrange/Newton interpolation, the two 5-point derivative    *)
(* methods, the two summary builders, and the App component that calls     *)
(* interpolate and differentiate from its Compute button.                  *)
(*                                                                         *)
(* A JavaScript number is modelled as a pair <<n, d>>: a reduced fraction  *)
(* n/d with d > 0 for a finite value, and d = 0 for the non-finite ones    *)
(* (<<0,0>> is NaN, <<1,0>> is +Infinity, <<-1,0>> is -Infinity).          *)
(* Arithmetic on finite values is exact (no rounding); signed zero is not  *)
(* distinguished.                                                          *)
(***************************************************************************)
EXTENDS Integers, Sequences, FiniteSets, TLC

VARIABLES
    table,   \* the TabularFunction argument: [x, f, xIsArray, fIsArray]
    X,       \* the PointsToEvaluate argument
    poly,    \* coefficients <<c0, ..., ck>> of the sampled polynomial, <<>> if none
    call,    \* the call made by the caller: [op, ...arguments beyond table and X]
    out,     \* what the call returned or threw
    pc,      \* "ready" before the call, "done" after it
    app,     \* the state of the App component (its useState cells)
    section  \* the state of the DataSection component and its FileReaders

vars == <<table, X, poly, call, out, pc, app, section>>

(***************************************************************************)
(* JavaScript numbers                                                      *)
(***************************************************************************)
AbsInt(i) == IF i < 0 THEN -i ELSE i

SgnInt(i) == IF i < 0 THEN -1 ELSE IF i > 0 THEN 1 ELSE 0

RECURSIVE GCD(_, _)
GCD(a, b) == IF b = 0 THEN a ELSE GCD(b, a % b)

Norm(n, d) ==
    IF d = 0 THEN <<SgnInt(n), 0>>
    ELSE LET g == GCD(AbsInt(n), AbsInt(d))
             s == IF d < 0 THEN -1 ELSE 1
         IN  <<(s * n) \div g, (s * d) \div g>>

NaN == <<0, 0>>
PosInf == <<1, 0>>
NegInf == <<-1, 0>>

Num(i) == <<i, 1>>
Frac(n, d) == Norm(n, d)

isNaN(a) == a = NaN
isFinite(a) == a[2] # 0

\* rank of a non-NaN value on the extended real line, used to order infinities
Rank(a) == IF a[2] # 0 THEN 0 ELSE a[1]

\* a < b, false whenever NaN takes part
Lt(a, b) ==
    /\ ~isNaN(a)
    /\ ~isNaN(b)
    /\ IF isFinite(a) /\ isFinite(b)
       THEN LET g == GCD(a[2], b[2])
            IN  a[1] * (b[2] \div g) < b[1] * (a[2] \div g)
       ELSE Rank(a) < Rank(b)

\* a === b on numbers, false whenever NaN takes part
Eq(a, b) == ~isNaN(a) /\ ~isNaN(b) /\ a = b

Le(a, b) == Lt(a, b) \/ Eq(a, b)
Gt(a, b) == Lt(b, a)
Ge(a, b) == Le(b, a)

Neg(a) == <<-a[1], a[2]>>

Add(a, b) ==
    IF isNaN(a) \/ isNaN(b) THEN NaN
    ELSE IF ~isFinite(a) THEN (IF ~isFinite(b) /\ a # b THEN NaN ELSE a)
    ELSE IF ~isFinite(b) THEN b
    ELSE LET g == GCD(a[2], b[2])
             l == (a[2] \div g) * b[2]
         IN  Norm(a[1] * (b[2] \div g) + b[1] * (a[2] \div g), l)

Sub(a, b) == Add(a, Neg(b))

Mul(a, b) ==
    IF ~isFinite(a) \/ ~isFinite(b) THEN Norm(a[1] * b[1], 0)
    ELSE LET g1 == GCD(AbsInt(a[1]), b[2])
             g2 == GCD(AbsInt(b[1]), a[2])
         IN  <<(a[1] \div g1) * (b[1] \div g2), (a[2] \div g2) * (b[2] \div g1)>>

Inv(b) == IF b[1] < 0 THEN Norm(-b[2], -b[1]) ELSE Norm(b[2], b[1])

Div(a, b) == Mul(a, Inv(b))

MathAbs(a) == <<AbsInt(a[1]), a[2]>>

\* arr[i] with JavaScript's 0-based index i; reading outside the array gives
\* undefined, which compares and computes as NaN
At(arr, i) == IF i >= 0 /\ i < Len(arr) THEN arr[i + 1] ELSE NaN

(***************************************************************************)
(* Errors (types/errors.ts)                                                *)
(***************************************************************************)
NoError == [name |-> "", message |-> ""]
TabularDataError(message) == [name |-> "TabularDataError", message |-> message]
MethodNotSupportedError(message) ==
    [name |-> "MethodNotSupportedError", message |-> message]

(***************************************************************************)
(* Tabular data (types/tabular.ts)                                         *)
(***************************************************************************)
\* { x, f } with both members arrays
Table(x, f) == [x |-> x, f |-> f, xIsArray |-> TRUE, fIsArray |-> TRUE]

(***************************************************************************)
(* Validation (modules/validation.ts)                                      *)
(***************************************************************************)
\* mutant: arr[i] < arr[i - 1] in place of <=, so a repeated node passes
isStrictlyIncreasingAllowEqual(arr) ==
    \A i \in 1..(Len(arr) - 1) : ~Lt(At(arr, i), At(arr, i - 1))

isStrictlyIncreasing(arr) ==
    \A i \in 1..(Len(arr) - 1) : ~Le(At(arr, i), At(arr, i - 1))

\* options = [hasMinPoints, minPoints]: options?.minPoints ?? 2
validateTabular(t, options) ==
    LET minPoints == IF options.hasMinPoints THEN options.minPoints ELSE 2
    IN  IF ~t.xIsArray \/ ~t.fIsArray
        THEN TabularDataError("Tabular data must contain arrays x and f.")
        ELSE IF Len(t.x) # Len(t.f)
        THEN TabularDataError("Arrays x and f must have the same length.")
        ELSE IF Len(t.x) < minPoints
        THEN TabularDataError("Tabular data must contain at least minPoints points.")
        ELSE IF ~isStrictlyIncreasing(t.x)
        THEN TabularDataError("Array x must be strictly increasing.")
        ELSE IF \E i \in 0..(Len(t.x) - 1) :
                    ~isFinite(At(t.x, i)) \/ ~isFinite(At(t.f, i))
        THEN TabularDataError("Tabular data contains invalid numeric values.")
        ELSE NoError

\* mutant: value <= minX || value >= maxX, so the end nodes are rejected
validatePointsToEvaluateExclusive(t, Xs, requireInRange) ==
    IF Len(Xs) = 0
    THEN TabularDataError("Points to evaluate (X) must be a non-empty array.")
    ELSE IF \E k \in 0..(Len(Xs) - 1) : ~isFinite(At(Xs, k))
    THEN TabularDataError("Points to evaluate (X) contain invalid numeric values.")
    ELSE IF requireInRange
            /\ LET minX == At(t.x, 0)
                   maxX == At(t.x, Len(t.x) - 1)
               IN  \E k \in 0..(Len(Xs) - 1) :
                       Le(At(Xs, k), minX) \/ Ge(At(Xs, k), maxX)
    THEN TabularDataError("Point X is outside of the tabular data range.")
    ELSE NoError

validatePointsToEvaluate(t, Xs, requireInRange) ==
    IF Len(Xs) = 0
    THEN TabularDataError("Points to evaluate (X) must be a non-empty array.")
    ELSE IF \E k \in 0..(Len(Xs) - 1) : ~isFinite(At(Xs, k))
    THEN TabularDataError("Points to evaluate (X) contain invalid numeric values.")
    ELSE IF requireInRange
            /\ LET minX == At(t.x, 0)
                   maxX == At(t.x, Len(t.x) - 1)
               IN  \E k \in 0..(Len(Xs) - 1) :
                       Lt(At(Xs, k), minX) \/ Gt(At(Xs, k), maxX)
    THEN TabularDataError("Point X is outside of the tabular data range.")
    ELSE NoError

validateMinPointsForMethod(t, requiredPoints, methodName) ==
    IF Len(t.x) < requiredPoints
    THEN TabularDataError(methodName)
    ELSE NoError

(***************************************************************************)
(* Grid utilities (modules/tabularUtils.ts)                                *)
(***************************************************************************)
\* null, and the absent value of a number | null field
Null == <<>>

\* what a function that may throw hands back: the value, or the error thrown
Return(v) == [error |-> NoError, value |-> v]
Throw(e) == [error |-> e, value |-> Null]

\* mutant: dist <= minDist, so the last of several nearest nodes wins
RECURSIVE nearestScanLast(_, _, _, _, _)
nearestScanLast(x, Xk, i, nearestIndex, minDist) ==
    IF i >= Len(x) THEN nearestIndex
    ELSE LET dist == MathAbs(Sub(At(x, i), Xk))
         IN  IF Le(dist, minDist)
             THEN nearestScanLast(x, Xk, i + 1, i, dist)
             ELSE nearestScanLast(x, Xk, i + 1, nearestIndex, minDist)

\* the for loop of findNearestIndex from index i on
RECURSIVE nearestScan(_, _, _, _, _)
nearestScan(x, Xk, i, nearestIndex, minDist) ==
    IF i >= Len(x) THEN nearestIndex
    ELSE LET dist == MathAbs(Sub(At(x, i), Xk))
         IN  IF Lt(dist, minDist)
             THEN nearestScan(x, Xk, i + 1, i, dist)
             ELSE nearestScan(x, Xk, i + 1, nearestIndex, minDist)

findNearestIndex(x, Xk) ==
    IF Len(x) = 0
    THEN Throw(TabularDataError("Cannot find nearest index in an empty array."))
    ELSE Return(nearestScan(x, Xk, 1, 0, MathAbs(Sub(At(x, 0), Xk))))

\* steps[i-1] = x[i] - x[i-1]
gridSteps(x) == [i \in 1..(Len(x) - 1) |-> Sub(At(x, i), At(x, i - 1))]

\* steps.reduce((sum, value) => sum + value, 0) over the first k steps
RECURSIVE sumSteps(_, _)
sumSteps(steps, k) ==
    IF k = 0 THEN Num(0) ELSE Add(sumSteps(steps, k - 1), steps[k])

\* mutant: step - h > tolerance without Math.abs, so a short step passes
getApproximateStepSigned(x, tolerance) ==
    IF Len(x) < 2 THEN Null
    ELSE LET steps == gridSteps(x)
             h == Div(sumSteps(steps, Len(steps)), Num(Len(steps)))
         IN  IF \E i \in 1..Len(steps) : Gt(Sub(steps[i], h), tolerance)
             THEN Null
             ELSE h

\* mutant: h is the first step instead of the mean of the steps
getApproximateStepFirstStep(x, tolerance) ==
    IF Len(x) < 2 THEN Null
    ELSE LET steps == gridSteps(x)
             h == steps[1]
         IN  IF \E i \in 1..Len(steps) : Gt(MathAbs(Sub(steps[i], h)), tolerance)
             THEN Null
             ELSE h

getApproximateStep(x, tolerance) ==
    IF Len(x) < 2 THEN Null
    ELSE LET steps == gridSteps(x)
             h == Div(sumSteps(steps, Len(steps)), Num(Len(steps)))
         IN  IF \E i \in 1..Len(steps) : Gt(MathAbs(Sub(steps[i], h)), tolerance)
             THEN Null
             ELSE h

\* mutant: only the low end is clamped, so the window runs off the high end
get5PointStencilIndicesNoHighClamp(t, Xk) ==
    IF Len(t.x) < 5
    THEN Throw(TabularDataError(
             "At least 5 points are required to build a 5-point stencil."))
    ELSE LET nearest == findNearestIndex(t.x, Xk).value
             start0 == nearest - 2
             start == IF start0 < 0 THEN 0 ELSE start0
         IN  Return([i \in 1..5 |-> start + (i - 1)])

\* mutant: the window ends at the nearest node (start = nearest - 4)
get5PointStencilIndicesBackward(t, Xk) ==
    IF Len(t.x) < 5
    THEN Throw(TabularDataError(
             "At least 5 points are required to build a 5-point stencil."))
    ELSE LET nearest == findNearestIndex(t.x, Xk).value
             start0 == nearest - 4
             start1 == IF start0 < 0 THEN 0 ELSE start0
             start == IF start1 + 4 >= Len(t.x) THEN Len(t.x) - 5 ELSE start1
         IN  Return([i \in 1..5 |-> start + (i - 1)])

get5PointStencilIndices(t, Xk) ==
    IF Len(t.x) < 5
    THEN Throw(TabularDataError(
             "At least 5 points are required to build a 5-point stencil."))
    ELSE LET nearest == findNearestIndex(t.x, Xk).value
             start0 == nearest - 2
             start1 == IF start0 < 0 THEN 0 ELSE start0
             start == IF start1 + 4 >= Len(t.x) THEN Len(t.x) - 5 ELSE start1
         IN  Return([i \in 1..5 |-> start + (i - 1)])

(***************************************************************************)
(* Interpolation (modules/interpolation/lagrange.ts, newton.ts, index.ts)  *)
(***************************************************************************)
DefaultTabularOptions == [hasMinPoints |-> FALSE, minPoints |-> 0]
MinPointsOptions(n) == [hasMinPoints |-> TRUE, minPoints |-> n]

\* the result of a method call: the function that ran, the error it threw (or
\* NoError), and the parallel sequences X and F (Fd for a derivative)
MethodThrow(fn, e) == [fn |-> fn, error |-> e, X |-> <<>>, F |-> <<>>]
MethodReturn(fn, Xs, F) == [fn |-> fn, error |-> NoError, X |-> Xs, F |-> F]
DerivativeThrow(fn, e) == [fn |-> fn, error |-> e, X |-> <<>>, Fd |-> <<>>]
DerivativeReturn(fn, Xs, Fd) == [fn |-> fn, error |-> NoError, X |-> Xs, Fd |-> Fd]

\* mutant: the divisor is x[j] - x[i]
RECURSIVE lagrangeBasisSwapped(_, _, _, _, _)
lagrangeBasisSwapped(x, Xk, i, j, Li) ==
    IF j >= Len(x) THEN Li
    ELSE IF j = i THEN lagrangeBasisSwapped(x, Xk, i, j + 1, Li)
    ELSE lagrangeBasisSwapped(x, Xk, i, j + 1,
             Mul(Li, Div(Sub(Xk, At(x, j)), Sub(At(x, j), At(x, i)))))

\* the inner loop over j of interpolateLagrangeAtPoint, Li accumulated so far
RECURSIVE lagrangeBasis(_, _, _, _, _)
lagrangeBasis(x, Xk, i, j, Li) ==
    IF j >= Len(x) THEN Li
    ELSE IF j = i THEN lagrangeBasis(x, Xk, i, j + 1, Li)
    ELSE lagrangeBasis(x, Xk, i, j + 1,
             Mul(Li, Div(Sub(Xk, At(x, j)), Sub(At(x, i), At(x, j)))))

\* the outer loop over i, value accumulated so far
RECURSIVE lagrangeSum(_, _, _, _, _)
lagrangeSum(x, f, Xk, i, value) ==
    IF i >= Len(x) THEN value
    ELSE lagrangeSum(x, f, Xk, i + 1,
             Add(value, Mul(At(f, i), lagrangeBasis(x, Xk, i, 0, Num(1)))))

interpolateLagrangeAtPoint(x, f, Xk) == lagrangeSum(x, f, Xk, 0, Num(0))

\* mutant: the values are pushed in the reverse order of X
interpolateLagrangeReversed(t, Xs) ==
    LET e1 == validateTabular(t, DefaultTabularOptions)
        e2 == validatePointsToEvaluate(t, Xs, FALSE)
    IN  IF e1 # NoError THEN MethodThrow("interpolateLagrange", e1)
        ELSE IF e2 # NoError THEN MethodThrow("interpolateLagrange", e2)
        ELSE MethodReturn("interpolateLagrange", Xs,
                 [k \in 1..Len(Xs) |->
                     interpolateLagrangeAtPoint(t.x, t.f, Xs[Len(Xs) - k + 1])])

interpolateLagrange(t, Xs) ==
    LET e1 == validateTabular(t, DefaultTabularOptions)
        e2 == validatePointsToEvaluate(t, Xs, FALSE)
    IN  IF e1 # NoError THEN MethodThrow("interpolateLagrange", e1)
        ELSE IF e2 # NoError THEN MethodThrow("interpolateLagrange", e2)
        ELSE MethodReturn("interpolateLagrange", Xs,
                 [k \in 1..Len(Xs) |-> interpolateLagrangeAtPoint(t.x, t.f, Xs[k])])

\* mutant: the divisor is x[i] - x[i - 1] whatever the order j
RECURSIVE newtonInnerAdjacent(_, _, _, _)
newtonInnerAdjacent(x, coef, j, i) ==
    IF i < j THEN coef
    ELSE newtonInnerAdjacent(x,
             [coef EXCEPT ![i + 1] =
                 Div(Sub(At(coef, i), At(coef, i - 1)), Sub(At(x, i), At(x, i - 1)))],
             j, i - 1)

\* mutant: i runs upwards from j to n-1, so coef[i - 1] is read after it was
\* overwritten with the value of order j
RECURSIVE newtonAscendingFrom(_, _, _, _, _)
newtonAscendingFrom(x, coef, j, i, last) ==
    IF i > last THEN coef
    ELSE newtonAscendingFrom(x,
             [coef EXCEPT ![i + 1] =
                 Div(Sub(At(coef, i), At(coef, i - 1)), Sub(At(x, i), At(x, i - j)))],
             j, i + 1, last)

newtonInnerAscending(x, coef, j, i) == newtonAscendingFrom(x, coef, j, j, i)

\* the inner loop of buildNewtonCoefficients: i runs from n-1 down to j
RECURSIVE newtonInner(_, _, _, _)
newtonInner(x, coef, j, i) ==
    IF i < j THEN coef
    ELSE newtonInner(x,
             [coef EXCEPT ![i + 1] =
                 Div(Sub(At(coef, i), At(coef, i - 1)), Sub(At(x, i), At(x, i - j)))],
             j, i - 1)

\* the outer loop over the order j
RECURSIVE newtonOuter(_, _, _)
newtonOuter(x, coef, j) ==
    IF j >= Len(x) THEN coef
    ELSE newtonOuter(x, newtonInner(x, coef, j, Len(x) - 1), j + 1)

buildNewtonCoefficients(x, f) == newtonOuter(x, f, 1)

\* the Horner loop of evaluateNewtonAtPoint: i runs from n-2 down to 0
RECURSIVE newtonHorner(_, _, _, _, _)
newtonHorner(x, coef, Xk, i, result) ==
    IF i < 0 THEN result
    ELSE newtonHorner(x, coef, Xk, i - 1,
             Add(Mul(result, Sub(Xk, At(x, i))), At(coef, i)))

evaluateNewtonAtPoint(x, coef, Xk) ==
    newtonHorner(x, coef, Xk, Len(x) - 2, At(coef, Len(x) - 1))

\* mutant: requireInRange: true, so extrapolation is rejected
interpolateNewtonInRange(t, Xs) ==
    LET e1 == validateTabular(t, DefaultTabularOptions)
        e2 == validatePointsToEvaluate(t, Xs, TRUE)
    IN  IF e1 # NoError THEN MethodThrow("interpolateNewton", e1)
        ELSE IF e2 # NoError THEN MethodThrow("interpolateNewton", e2)
        ELSE LET coef == buildNewtonCoefficients(t.x, t.f)
             IN  MethodReturn("interpolateNewton", Xs,
                     [k \in 1..Len(Xs) |-> evaluateNewtonAtPoint(t.x, coef, Xs[k])])

interpolateNewton(t, Xs) ==
    LET e1 == validateTabular(t, DefaultTabularOptions)
        e2 == validatePointsToEvaluate(t, Xs, FALSE)
    IN  IF e1 # NoError THEN MethodThrow("interpolateNewton", e1)
        ELSE IF e2 # NoError THEN MethodThrow("interpolateNewton", e2)
        ELSE LET coef == buildNewtonCoefficients(t.x, t.f)
             IN  MethodReturn("interpolateNewton", Xs,
                     [k \in 1..Len(Xs) |-> evaluateNewtonAtPoint(t.x, coef, Xs[k])])

interpolateLagrangeRaw(x, f, Xs) ==
    LET result == interpolateLagrange(Table(x, f), Xs)
    IN  IF result.error # NoError THEN Throw(result.error) ELSE Return(result.F)

interpolateNewtonRaw(x, f, Xs) ==
    LET result == interpolateNewton(Table(x, f), Xs)
    IN  IF result.error # NoError THEN Throw(result.error) ELSE Return(result.F)

\* mutant: the default branch falls back to Newton instead of throwing
interpolateDefaultNewton(method, t, Xs) ==
    CASE method = "lagrange" -> interpolateLagrange(t, Xs)
      [] OTHER -> interpolateNewton(t, Xs)

interpolate(method, t, Xs) ==
    CASE method = "lagrange" -> interpolateLagrange(t, Xs)
      [] method = "newton" -> interpolateNewton(t, Xs)
      [] OTHER -> MethodThrow("interpolate",
                      MethodNotSupportedError("Interpolation method is not supported."))

interpolateRaw(method, x, f, Xs) ==
    CASE method = "lagrange" -> interpolateLagrangeRaw(x, f, Xs)
      [] method = "newton" -> interpolateNewtonRaw(x, f, Xs)
      [] OTHER -> Throw(MethodNotSupportedError("Interpolation method is not supported."))

(***************************************************************************)
(* Differentiation (modules/differentiation/interpolation5.ts,             *)
(* approximation5.ts, index.ts)                                            *)
(***************************************************************************)
\* mutant: the product skips only j = i, so the factor of j = m stays in
RECURSIVE derivativeTermKeepingM(_, _, _, _, _, _)
derivativeTermKeepingM(x, Xk, i, m, j, term) ==
    IF j >= Len(x) THEN term
    ELSE IF j = i THEN derivativeTermKeepingM(x, Xk, i, m, j + 1, term)
    ELSE derivativeTermKeepingM(x, Xk, i, m, j + 1,
             Mul(term, Div(Sub(Xk, At(x, j)), Sub(At(x, i), At(x, j)))))

\* the innermost loop over j of computeLagrangeDerivativeAtPoint
RECURSIVE derivativeTerm(_, _, _, _, _, _)
derivativeTerm(x, Xk, i, m, j, term) ==
    IF j >= Len(x) THEN term
    ELSE IF j = i \/ j = m THEN derivativeTerm(x, Xk, i, m, j + 1, term)
    ELSE derivativeTerm(x, Xk, i, m, j + 1,
             Mul(term, Div(Sub(Xk, At(x, j)), Sub(At(x, i), At(x, j)))))

\* the loop over m != i, LiPrimeAtXk accumulated so far
RECURSIVE derivativeBasis(_, _, _, _, _)
derivativeBasis(x, Xk, i, m, LiPrimeAtXk) ==
    IF m >= Len(x) THEN LiPrimeAtXk
    ELSE IF m = i THEN derivativeBasis(x, Xk, i, m + 1, LiPrimeAtXk)
    ELSE derivativeBasis(x, Xk, i, m + 1,
             Add(LiPrimeAtXk,
                 derivativeTerm(x, Xk, i, m, 0,
                     Div(Num(1), Sub(At(x, i), At(x, m))))))

\* the outer loop over i, derivative accumulated so far
RECURSIVE derivativeSum(_, _, _, _, _)
derivativeSum(x, f, Xk, i, derivative) ==
    IF i >= Len(x) THEN derivative
    ELSE derivativeSum(x, f, Xk, i + 1,
             Add(derivative, Mul(At(f, i), derivativeBasis(x, Xk, i, 0, Num(0)))))

computeLagrangeDerivativeAtPoint(x, f, Xk) == derivativeSum(x, f, Xk, 0, Num(0))

\* indices.map((i) => arr[i])
mapIndices(indices, arr) == [k \in 1..Len(indices) |-> At(arr, indices[k])]

\* mutant: requireInRange: false, so points outside the table are differentiated
differentiateByInterpolation5Extrapolating(t, Xs) ==
    LET fn == "differentiateByInterpolation5"
        e1 == validateTabular(t, MinPointsOptions(5))
        e2 == validateMinPointsForMethod(t, 5, "interpolation5")
        e3 == validatePointsToEvaluate(t, Xs, FALSE)
    IN  IF e1 # NoError THEN DerivativeThrow(fn, e1)
        ELSE IF e2 # NoError THEN DerivativeThrow(fn, e2)
        ELSE IF e3 # NoError THEN DerivativeThrow(fn, e3)
        ELSE DerivativeReturn(fn, Xs,
                 [k \in 1..Len(Xs) |->
                     LET indices == get5PointStencilIndices(t, Xs[k]).value
                     IN  computeLagrangeDerivativeAtPoint(
                             mapIndices(indices, t.x), mapIndices(indices, t.f), Xs[k])])

\* mutant: the method asks for one node more than the stencil needs
differentiateByInterpolation5SixNodes(t, Xs) ==
    LET fn == "differentiateByInterpolation5"
        e1 == validateTabular(t, MinPointsOptions(6))
        e2 == validateMinPointsForMethod(t, 6, "interpolation5")
        e3 == validatePointsToEvaluate(t, Xs, TRUE)
    IN  IF e1 # NoError THEN DerivativeThrow(fn, e1)
        ELSE IF e2 # NoError THEN DerivativeThrow(fn, e2)
        ELSE IF e3 # NoError THEN DerivativeThrow(fn, e3)
        ELSE DerivativeReturn(fn, Xs,
                 [k \in 1..Len(Xs) |->
                     LET indices == get5PointStencilIndices(t, Xs[k]).value
                     IN  computeLagrangeDerivativeAtPoint(
                             mapIndices(indices, t.x), mapIndices(indices, t.f), Xs[k])])

differentiateByInterpolation5(t, Xs) ==
    LET fn == "differentiateByInterpolation5"
        e1 == validateTabular(t, MinPointsOptions(5))
        e2 == validateMinPointsForMethod(t, 5, "interpolation5")
        e3 == validatePointsToEvaluate(t, Xs, TRUE)
    IN  IF e1 # NoError THEN DerivativeThrow(fn, e1)
        ELSE IF e2 # NoError THEN DerivativeThrow(fn, e2)
        ELSE IF e3 # NoError THEN DerivativeThrow(fn, e3)
        ELSE DerivativeReturn(fn, Xs,
                 [k \in 1..Len(Xs) |->
                     LET indices == get5PointStencilIndices(t, Xs[k]).value
                     IN  computeLagrangeDerivativeAtPoint(
                             mapIndices(indices, t.x), mapIndices(indices, t.f), Xs[k])])

\* a * f[k] for an integer literal a
Times(a, f, k) == Mul(Num(a), At(f, k))

\* mutant: the branch for i = n - 2 is missing, so the central formula is
\* applied there and reads f[n]
finiteDifference5AtIndexNoShiftedBackward(f, i, h) ==
    LET n == Len(f)
        h12 == Mul(Num(12), h)
    IN  IF n < 5
        THEN Throw(TabularDataError(
                 "At least 5 points are required to apply 5-point finite difference formulas."))
        ELSE IF i = 0
        THEN Return(Div(
                 Sub(Add(Sub(Add(Times(-25, f, 0), Times(48, f, 1)), Times(36, f, 2)),
                         Times(16, f, 3)), Times(3, f, 4)),
                 h12))
        ELSE IF i = 1
        THEN Return(Div(
                 Add(Sub(Add(Sub(Times(-3, f, 0), Times(10, f, 1)), Times(18, f, 2)),
                         Times(6, f, 3)), At(f, 4)),
                 h12))
        ELSE IF i = n - 1
        THEN Return(Div(
                 Add(Sub(Add(Sub(Times(25, f, n - 1), Times(48, f, n - 2)),
                             Times(36, f, n - 3)), Times(16, f, n - 4)),
                     Times(3, f, n - 5)),
                 h12))
        ELSE Return(Div(
                 Sub(Add(Sub(At(f, i - 2), Times(8, f, i - 1)), Times(8, f, i + 1)),
                     At(f, i + 2)),
                 h12))

\* mutant: the test i === 1 is i <= 2, so node 2 gets the shifted forward
\* formula instead of the central one
finiteDifference5AtIndexWideShiftedForward(f, i, h) ==
    LET n == Len(f)
        h12 == Mul(Num(12), h)
    IN  IF n < 5
        THEN Throw(TabularDataError(
                 "At least 5 points are required to apply 5-point finite difference formulas."))
        ELSE IF i = 0
        THEN Return(Div(
                 Sub(Add(Sub(Add(Times(-25, f, 0), Times(48, f, 1)), Times(36, f, 2)),
                         Times(16, f, 3)), Times(3, f, 4)),
                 h12))
        ELSE IF i <= 2
        THEN Return(Div(
                 Add(Sub(Add(Sub(Times(-3, f, 0), Times(10, f, 1)), Times(18, f, 2)),
                         Times(6, f, 3)), At(f, 4)),
                 h12))
        ELSE IF i = n - 2
        THEN Return(Div(
                 Sub(Add(Sub(Add(Times(3, f, n - 1), Times(10, f, n - 2)),
                             Times(18, f, n - 3)), Times(6, f, n - 4)), At(f, n - 5)),
                 h12))
        ELSE IF i = n - 1
        THEN Return(Div(
                 Add(Sub(Add(Sub(Times(25, f, n - 1), Times(48, f, n - 2)),
                             Times(36, f, n - 3)), Times(16, f, n - 4)),
                     Times(3, f, n - 5)),
                 h12))
        ELSE Return(Div(
                 Sub(Add(Sub(At(f, i - 2), Times(8, f, i - 1)), Times(8, f, i + 1)),
                     At(f, i + 2)),
                 h12))

finiteDifference5AtIndex(f, i, h) ==
    LET n == Len(f)
        h12 == Mul(Num(12), h)
    IN  IF n < 5
        THEN Throw(TabularDataError(
                 "At least 5 points are required to apply 5-point finite difference formulas."))
        ELSE IF i = 0
        THEN Return(Div(
                 Sub(Add(Sub(Add(Times(-25, f, 0), Times(48, f, 1)), Times(36, f, 2)),
                         Times(16, f, 3)), Times(3, f, 4)),
                 h12))
        ELSE IF i = 1
        THEN Return(Div(
                 Add(Sub(Add(Sub(Times(-3, f, 0), Times(10, f, 1)), Times(18, f, 2)),
                         Times(6, f, 3)), At(f, 4)),
                 h12))
        ELSE IF i = n - 2
        THEN Return(Div(
                 Sub(Add(Sub(Add(Times(3, f, n - 1), Times(10, f, n - 2)),
                             Times(18, f, n - 3)), Times(6, f, n - 4)), At(f, n - 5)),
                 h12))
        ELSE IF i = n - 1
        THEN Return(Div(
                 Add(Sub(Add(Sub(Times(25, f, n - 1), Times(48, f, n - 2)),
                             Times(36, f, n - 3)), Times(16, f, n - 4)),
                     Times(3, f, n - 5)),
                 h12))
        ELSE Return(Div(
                 Sub(Add(Sub(At(f, i - 2), Times(8, f, i - 1)), Times(8, f, i + 1)),
                     At(f, i + 2)),
                 h12))

\* the grid tolerance 1e-6 and the node tolerance factor 1e-3 of approximation5
StepTolerance == Frac(1, 1000000)
NodeToleranceFactor == Frac(1, 1000)

\* mutant: a point that is not near a node is skipped instead of throwing
RECURSIVE approximation5LoopSkipping(_, _, _, _, _)
approximation5LoopSkipping(t, Xs, h, k, Fd) ==
    IF k >= Len(Xs) THEN DerivativeReturn("differentiateByApproximation5", Xs, Fd)
    ELSE LET Xk == At(Xs, k)
             nodeTolerance == Mul(MathAbs(h), NodeToleranceFactor)
             idx == findNearestIndex(t.x, Xk).value
             distance == MathAbs(Sub(Xk, At(t.x, idx)))
             d == finiteDifference5AtIndex(t.f, idx, h)
         IN  IF Gt(distance, nodeTolerance)
             THEN approximation5LoopSkipping(t, Xs, h, k + 1, Fd)
             ELSE IF d.error # NoError
             THEN DerivativeThrow("differentiateByApproximation5", d.error)
             ELSE approximation5LoopSkipping(t, Xs, h, k + 1, Append(Fd, d.value))

\* the for loop over X of differentiateByApproximation5 from X[k] on, Fd so far
RECURSIVE approximation5Loop(_, _, _, _, _)
approximation5Loop(t, Xs, h, k, Fd) ==
    IF k >= Len(Xs) THEN DerivativeReturn("differentiateByApproximation5", Xs, Fd)
    ELSE LET Xk == At(Xs, k)
             nodeTolerance == Mul(MathAbs(h), NodeToleranceFactor)
             idx == findNearestIndex(t.x, Xk).value
             distance == MathAbs(Sub(Xk, At(t.x, idx)))
             d == finiteDifference5AtIndex(t.f, idx, h)
         IN  IF Gt(distance, nodeTolerance)
             THEN DerivativeThrow("differentiateByApproximation5", TabularDataError(
                      "Approximation method supports only points X that are close to tabular nodes."))
             ELSE IF d.error # NoError
             THEN DerivativeThrow("differentiateByApproximation5", d.error)
             ELSE approximation5Loop(t, Xs, h, k + 1, Append(Fd, d.value))

differentiateByApproximation5(t, Xs) ==
    LET fn == "differentiateByApproximation5"
        e1 == validateTabular(t, MinPointsOptions(5))
        e2 == validateMinPointsForMethod(t, 5, "approximation5")
        h == getApproximateStep(t.x, StepTolerance)
        e3 == validatePointsToEvaluate(t, Xs, TRUE)
    IN  IF e1 # NoError THEN DerivativeThrow(fn, e1)
        ELSE IF e2 # NoError THEN DerivativeThrow(fn, e2)
        ELSE IF h = Null \/ ~isFinite(h) \/ Eq(MathAbs(h), Num(0))
        THEN DerivativeThrow(fn, TabularDataError(
                 "Approximation method requires an almost uniform grid in x."))
        ELSE IF e3 # NoError THEN DerivativeThrow(fn, e3)
        ELSE approximation5Loop(t, Xs, h, 0, <<>>)

differentiate(method, t, Xs) ==
    CASE method = "interpolation5" -> differentiateByInterpolation5(t, Xs)
      [] method = "approximation5" -> differentiateByApproximation5(t, Xs)
      [] OTHER -> DerivativeThrow("differentiate",
                      MethodNotSupportedError("Differentiation method is not supported."))

differentiateByInterpolation5Raw(x, f, Xs) ==
    LET result == differentiateByInterpolation5(Table(x, f), Xs)
    IN  IF result.error # NoError THEN Throw(result.error) ELSE Return(result.Fd)

differentiateByApproximation5Raw(x, f, Xs) ==
    LET result == differentiateByApproximation5(Table(x, f), Xs)
    IN  IF result.error # NoError THEN Throw(result.error) ELSE Return(result.Fd)

differentiateRaw(method, x, f, Xs) ==
    CASE method = "interpolation5" -> differentiateByInterpolation5Raw(x, f, Xs)
      [] method = "approximation5" -> differentiateByApproximation5Raw(x, f, Xs)
      [] OTHER -> Throw(MethodNotSupportedError("Differentiation method is not supported."))

(***************************************************************************)
(* Differentiation summary (modules/differentiation/methodsSummary.ts)     *)
(***************************************************************************)
\* try { result = method(table, X) } catch { result = null }
tryMethod(r) == IF r.error # NoError THEN Null ELSE r

\* result && result.Fd[i] != null ? result.Fd[i] : null
valueOrNull(result, i) ==
    IF result # Null /\ i < Len(result.Fd) THEN At(result.Fd, i) ELSE Null

\* mutant: the difference is taken without Math.abs
RECURSIVE summaryLoopSigned(_, _, _, _, _)
summaryLoopSigned(Xs, interpolationResult, approximationResult, i, acc) ==
    IF i >= Len(Xs) THEN acc
    ELSE LET vInterp == valueOrNull(interpolationResult, i)
             vApprox == valueOrNull(approximationResult, i)
             both == vInterp # Null /\ vApprox # Null
             absDiff == IF both THEN Sub(vInterp, vApprox) ELSE Null
             row == [X |-> At(Xs, i), interpolation5 |-> vInterp,
                     approximation5 |-> vApprox, absDiff |-> absDiff]
         IN  summaryLoopSigned(Xs, interpolationResult, approximationResult, i + 1,
                 [rows |-> Append(acc.rows, row),
                  sumAbsDiff |-> IF both THEN Add(acc.sumAbsDiff, absDiff)
                                 ELSE acc.sumAbsDiff,
                  maxAbsDiff |-> IF both /\ Gt(absDiff, acc.maxAbsDiff) THEN absDiff
                                 ELSE acc.maxAbsDiff,
                  countForStats |-> IF both THEN acc.countForStats + 1
                                    ELSE acc.countForStats])

\* the for loop over X from index i on; acc = [rows, sumAbsDiff, maxAbsDiff,
\* countForStats]
RECURSIVE summaryLoop(_, _, _, _, _)
summaryLoop(Xs, interpolationResult, approximationResult, i, acc) ==
    IF i >= Len(Xs) THEN acc
    ELSE LET vInterp == valueOrNull(interpolationResult, i)
             vApprox == valueOrNull(approximationResult, i)
             both == vInterp # Null /\ vApprox # Null
             absDiff == IF both THEN MathAbs(Sub(vInterp, vApprox)) ELSE Null
             row == [X |-> At(Xs, i), interpolation5 |-> vInterp,
                     approximation5 |-> vApprox, absDiff |-> absDiff]
         IN  summaryLoop(Xs, interpolationResult, approximationResult, i + 1,
                 [rows |-> Append(acc.rows, row),
                  sumAbsDiff |-> IF both THEN Add(acc.sumAbsDiff, absDiff)
                                 ELSE acc.sumAbsDiff,
                  maxAbsDiff |-> IF both /\ Gt(absDiff, acc.maxAbsDiff) THEN absDiff
                                 ELSE acc.maxAbsDiff,
                  countForStats |-> IF both THEN acc.countForStats + 1
                                    ELSE acc.countForStats])

\* mutant: the approximation method is called outside a try block, so its
\* error aborts the summary
buildDifferentiationMethodsSummaryAborting(t, Xs) ==
    LET interpolationResult == tryMethod(differentiateByInterpolation5(t, Xs))
        approximation == differentiateByApproximation5(t, Xs)
        acc == summaryLoop(Xs, interpolationResult, approximation, 0,
                   [rows |-> <<>>, sumAbsDiff |-> Num(0), maxAbsDiff |-> Num(0),
                    countForStats |-> 0])
        hasStats == acc.countForStats > 0
    IN  IF approximation.error # NoError
        THEN [fn |-> "buildDifferentiationMethodsSummary",
              error |-> approximation.error,
              rows |-> <<>>, meanAbsDiff |-> Null, maxAbsDiff |-> Null]
        ELSE [fn |-> "buildDifferentiationMethodsSummary",
              error |-> NoError,
              rows |-> acc.rows,
              meanAbsDiff |-> IF hasStats
                              THEN Div(acc.sumAbsDiff, Num(acc.countForStats))
                              ELSE Null,
              maxAbsDiff |-> IF hasStats THEN acc.maxAbsDiff ELSE Null]

\* the part after the two try blocks: the rows and the aggregates
summaryOf(Xs, interpolationResult, approximationResult) ==
    LET acc == summaryLoop(Xs, interpolationResult, approximationResult, 0,
                   [rows |-> <<>>, sumAbsDiff |-> Num(0), maxAbsDiff |-> Num(0),
                    countForStats |-> 0])
        hasStats == acc.countForStats > 0
        meanAbsDiff == IF acc.countForStats > 0
                       THEN Div(acc.sumAbsDiff, Num(acc.countForStats)) ELSE Null
    IN  [fn |-> "buildDifferentiationMethodsSummary",
         error |-> NoError,
         rows |-> acc.rows,
         meanAbsDiff |-> IF hasStats THEN meanAbsDiff ELSE Null,
         maxAbsDiff |-> IF hasStats THEN acc.maxAbsDiff ELSE Null]

buildDifferentiationMethodsSummary(t, Xs) ==
    summaryOf(Xs, tryMethod(differentiateByInterpolation5(t, Xs)),
                  tryMethod(differentiateByApproximation5(t, Xs)))

(***************************************************************************)
(* Interpolation summary (modules/interpolation/methodsSummary.ts)         *)
(***************************************************************************)
\* mutant: maxAbsDiff is overwritten by every row's absDiff
RECURSIVE interpolationSummaryLoopLastDiff(_, _, _, _, _)
interpolationSummaryLoopLastDiff(Xs, lagrangeResult, newtonResult, i, acc) ==
    IF i >= Len(Xs) THEN acc
    ELSE LET vL == At(lagrangeResult.F, i)
             vN == At(newtonResult.F, i)
             absDiff == MathAbs(Sub(vL, vN))
         IN  interpolationSummaryLoopLastDiff(Xs, lagrangeResult, newtonResult, i + 1,
                 [rows |-> Append(acc.rows,
                               [X |-> At(Xs, i), lagrange |-> vL, newton |-> vN,
                                absDiff |-> absDiff]),
                  sumAbsDiff |-> Add(acc.sumAbsDiff, absDiff),
                  maxAbsDiff |-> absDiff])

\* the for loop over X from index i on; acc = [rows, sumAbsDiff, maxAbsDiff]
RECURSIVE interpolationSummaryLoop(_, _, _, _, _)
interpolationSummaryLoop(Xs, lagrangeResult, newtonResult, i, acc) ==
    IF i >= Len(Xs) THEN acc
    ELSE LET vL == At(lagrangeResult.F, i)
             vN == At(newtonResult.F, i)
             absDiff == MathAbs(Sub(vL, vN))
         IN  interpolationSummaryLoop(Xs, lagrangeResult, newtonResult, i + 1,
                 [rows |-> Append(acc.rows,
                               [X |-> At(Xs, i), lagrange |-> vL, newton |-> vN,
                                absDiff |-> absDiff]),
                  sumAbsDiff |-> Add(acc.sumAbsDiff, absDiff),
                  maxAbsDiff |-> IF Gt(absDiff, acc.maxAbsDiff) THEN absDiff
                                 ELSE acc.maxAbsDiff])

SummaryThrow(fn, e) ==
    [fn |-> fn, error |-> e, rows |-> <<>>, meanAbsDiff |-> Null, maxAbsDiff |-> Null]

\* mutant: each call sits in a try/catch as in the differentiation summary,
\* and a failed method gives null values
interpolationSummaryOfCatching(Xs, lagrangeResult, newtonResult) ==
    IF lagrangeResult.error # NoError \/ newtonResult.error # NoError
    THEN [fn |-> "buildInterpolationMethodsSummary",
          error |-> NoError,
          rows |-> [k \in 1..Len(Xs) |->
                       [X |-> Xs[k],
                        lagrange |-> IF lagrangeResult.error # NoError THEN Null
                                     ELSE lagrangeResult.F[k],
                        newton |-> IF newtonResult.error # NoError THEN Null
                                   ELSE newtonResult.F[k],
                        absDiff |-> Null]],
          meanAbsDiff |-> IF Len(Xs) > 0 THEN Null ELSE Num(0),
          maxAbsDiff |-> Num(0)]
    ELSE LET acc == interpolationSummaryLoop(Xs, lagrangeResult, newtonResult, 0,
                        [rows |-> <<>>, sumAbsDiff |-> Num(0), maxAbsDiff |-> Num(0)])
         IN  [fn |-> "buildInterpolationMethodsSummary",
              error |-> NoError,
              rows |-> acc.rows,
              meanAbsDiff |-> IF Len(Xs) > 0 THEN Div(acc.sumAbsDiff, Num(Len(Xs)))
                              ELSE Num(0),
              maxAbsDiff |-> acc.maxAbsDiff]

\* the function given what its two calls returned or threw; a throw of either
\* call leaves the function
interpolationSummaryOf(Xs, lagrangeResult, newtonResult) ==
    IF lagrangeResult.error # NoError
    THEN SummaryThrow("buildInterpolationMethodsSummary", lagrangeResult.error)
    ELSE IF newtonResult.error # NoError
    THEN SummaryThrow("buildInterpolationMethodsSummary", newtonResult.error)
    ELSE LET acc == interpolationSummaryLoop(Xs, lagrangeResult, newtonResult, 0,
                        [rows |-> <<>>, sumAbsDiff |-> Num(0), maxAbsDiff |-> Num(0)])
         IN  [fn |-> "buildInterpolationMethodsSummary",
              error |-> NoError,
              rows |-> acc.rows,
              meanAbsDiff |-> IF Len(Xs) > 0 THEN Div(acc.sumAbsDiff, Num(Len(Xs)))
                              ELSE Num(0),
              maxAbsDiff |-> acc.maxAbsDiff]

buildInterpolationMethodsSummary(t, Xs) ==
    interpolationSummaryOf(Xs, interpolateLagrange(t, Xs), interpolateNewton(t, Xs))

(***************************************************************************)
(* The caller's arrays in memory.  A call receives table.x, table.f and X  *)
(* by reference; the only assignment to an array element in the core is    *)
(* coef[i] = ... in buildNewtonCoefficients, every other array written     *)
(* (steps, indices, F, Fd, rows) is created by the function that pushes to *)
(* it.  Memory maps the name of an array to its contents.                  *)
(***************************************************************************)
Memory(t, Xs) == [x |-> t.x, f |-> t.f, X |-> Xs]

\* mutant: const coef = f, so the loops write the caller's array
buildNewtonCoefficientsAliased(memory) ==
    LET coef == "f"
        allocated == [x |-> memory.x, f |-> memory.f, X |-> memory.X,
                      coef |-> memory.f]
        written == newtonOuter(allocated.x, allocated[coef], 1)
    IN  [allocated EXCEPT ![coef] = written, !["coef"] = written]

\* const coef = [...f] allocates a new array holding the elements of f; the
\* loops then write coef[i]
buildNewtonCoefficientsInMemory(memory) ==
    LET coef == "coef"
        allocated == [x |-> memory.x, f |-> memory.f, X |-> memory.X,
                      coef |-> memory.f]
    IN  [allocated EXCEPT ![coef] = newtonOuter(allocated.x, allocated[coef], 1)]

\* the caller's arrays after interpolateNewton(table, X): a validation error
\* leaves before the build
interpolateNewtonInMemory(t, Xs) ==
    IF interpolateNewton(t, Xs).error # NoError THEN Memory(t, Xs)
    ELSE LET after == buildNewtonCoefficientsInMemory(Memory(t, Xs))
         IN  [x |-> after.x, f |-> after.f, X |-> after.X]

interpolateInMemory(method, t, Xs) ==
    IF method = "newton" THEN interpolateNewtonInMemory(t, Xs) ELSE Memory(t, Xs)

\* interpolateNewton is called only if interpolateLagrange returned
buildInterpolationMethodsSummaryInMemory(t, Xs) ==
    IF interpolateLagrange(t, Xs).error # NoError THEN Memory(t, Xs)
    ELSE interpolateNewtonInMemory(t, Xs)

\* no statement of the differentiation methods or of their summary assigns to
\* an element of x, f or X
differentiateInMemory(method, t, Xs) == Memory(t, Xs)

buildDifferentiationMethodsSummaryInMemory(t, Xs) == Memory(t, Xs)

(***************************************************************************)
(* The App component (App.tsx): its state and its handlers.  A handler     *)
(* maps the state it runs in to the state after its setState calls.  The   *)
(* id of an AppError (time and random digits) is left out: errors is the   *)
(* sequence of messages.                                                   *)
(***************************************************************************)
\* a cell that holds an object or an array, or null
NullObject == [null |-> TRUE]
Object(v) == [null |-> FALSE, value |-> v]

InitialApp ==
    [task |-> "interpolation", method |-> "lagrange",
     table |-> NullObject, X |-> NullObject,
     interpolationResult |-> NullObject, derivativeResult |-> NullObject,
     errors |-> <<>>]

\* mutant: the task changes and the method selected before is kept
handleTaskChangeKeepingMethod(a, nextTask) ==
    [a EXCEPT !.task = nextTask,
              !.interpolationResult = NullObject,
              !.derivativeResult = NullObject,
              !.errors = <<>>]

handleTaskChange(a, nextTask) ==
    [a EXCEPT !.task = nextTask,
              !.method = IF nextTask = "interpolation" THEN "lagrange"
                         ELSE "interpolation5",
              !.interpolationResult = NullObject,
              !.derivativeResult = NullObject,
              !.errors = <<>>]

setMethod(a, value) == [a EXCEPT !.method = value]

setErrors(a, errors) == [a EXCEPT !.errors = errors]

\* mutant: the new data is stored and the results are left displayed
handleDataChangeKeepingResults(a, nextTable, nextX) ==
    [a EXCEPT !.table = nextTable, !.X = nextX, !.errors = <<>>]

handleDataChange(a, nextTable, nextX) ==
    [a EXCEPT !.table = nextTable, !.X = nextX,
              !.interpolationResult = NullObject,
              !.derivativeResult = NullObject,
              !.errors = <<>>]

\* the three setState calls shared by the failure branches of handleRun
runFailed(a, message) ==
    [a EXCEPT !.errors = <<message>>,
              !.interpolationResult = NullObject,
              !.derivativeResult = NullObject]

\* mutant: the catch block shows the message and leaves the results alone
handleRunKeepingResults(a) ==
    IF a.table.null \/ a.X.null
    THEN runFailed(a, "No data to compute. Please load a data file first.")
    ELSE IF Len(a.X.value) = 0
    THEN runFailed(a, "The list of evaluation points X is empty.")
    ELSE IF a.task = "interpolation"
    THEN LET result == interpolate(a.method, a.table.value, a.X.value)
         IN  IF result.error # NoError
             THEN [a EXCEPT !.errors = <<result.error.message>>]
             ELSE [a EXCEPT !.errors = <<>>,
                            !.interpolationResult =
                                Object([X |-> result.X, F |-> result.F]),
                            !.derivativeResult = NullObject]
    ELSE LET result == differentiate(a.method, a.table.value, a.X.value)
         IN  IF result.error # NoError
             THEN [a EXCEPT !.errors = <<result.error.message>>]
             ELSE [a EXCEPT !.errors = <<>>,
                            !.derivativeResult =
                                Object([X |-> result.X, Fd |-> result.Fd]),
                            !.interpolationResult = NullObject]

handleRun(a) ==
    IF a.table.null \/ a.X.null
    THEN runFailed(a, "No data to compute. Please load a data file first.")
    ELSE IF Len(a.X.value) = 0
    THEN runFailed(a, "The list of evaluation points X is empty.")
    ELSE IF a.task = "interpolation"
    THEN LET result == interpolate(a.method, a.table.value, a.X.value)
         IN  IF result.error # NoError
             THEN runFailed(a, result.error.message)
             ELSE [a EXCEPT !.errors = <<>>,
                            !.interpolationResult =
                                Object([X |-> result.X, F |-> result.F]),
                            !.derivativeResult = NullObject]
    ELSE LET result == differentiate(a.method, a.table.value, a.X.value)
         IN  IF result.error # NoError
             THEN runFailed(a, result.error.message)
             ELSE [a EXCEPT !.errors = <<>>,
                            !.derivativeResult =
                                Object([X |-> result.X, Fd |-> result.Fd]),
                            !.interpolationResult = NullObject]

\* const disabledRun = !table || !X || Boolean(errors.length)
disabledRun(a) == a.table.null \/ a.X.null \/ Len(a.errors) # 0

\* the buttons MethodSelector renders for the task
offeredMethods(task) ==
    IF task = "interpolation" THEN {"lagrange", "newton"}
    ELSE {"interpolation5", "approximation5"}

(***************************************************************************)
(* What the handlers of DataSection (components/data/DataSection.tsx) do   *)
(* to the App through onDataChange and onErrorsChange                      *)
(***************************************************************************)
pushError(a, message) == setErrors(a, <<message>>)

clearErrors(a) == setErrors(a, <<>>)

clearData(a) == handleDataChange(a, NullObject, NullObject)

\* mutant: the points are passed on without validatePointsToEvaluate
dataParsedTableOnly(a, parsed) ==
    LET e0 == parsed.error
        e1 == validateTabular(parsed.table, DefaultTabularOptions)
    IN  IF e0 # NoError THEN pushError(clearData(a), e0.message)
        ELSE IF e1 # NoError THEN pushError(clearData(a), e1.message)
        ELSE handleDataChange(a, Object(parsed.table), Object(parsed.X))

\* the try block shared by reader.onload and handleApplyManual, given what
\* parsing produced: validateTabular, validatePointsToEvaluate, onDataChange;
\* the catch block: clearData, pushError
dataParsed(a, parsed) ==
    LET e0 == parsed.error
        e1 == validateTabular(parsed.table, DefaultTabularOptions)
        e2 == validatePointsToEvaluate(parsed.table, parsed.X, FALSE)
    IN  IF e0 # NoError THEN pushError(clearData(a), e0.message)
        ELSE IF e1 # NoError THEN pushError(clearData(a), e1.message)
        ELSE IF e2 # NoError THEN pushError(clearData(a), e2.message)
        ELSE handleDataChange(a, Object(parsed.table), Object(parsed.X))

(***************************************************************************)
(* The state of DataSection: the input mode, the name of the selected file *)
(* and the FileReaders whose readAsText has not completed yet, oldest      *)
(* first.  The program keeps no reference to a reader once readAsText is   *)
(* called and never aborts one.  The field current of a reader is history  *)
(* kept for the properties only: it is TRUE from readAsText until the next *)
(* input action of the user (mode switch, file selection, Clear, Apply).   *)
(***************************************************************************)
InitialSection == [mode |-> "file", fileName |-> NullObject, readers |-> <<>>]

\* const reader = new FileReader(); ...; reader.readAsText(file)
FileReader(file) == [file |-> file, current |-> TRUE]

superseded(readers) ==
    [i \in DOMAIN readers |-> [readers[i] EXCEPT !.current = FALSE]]

\* the pending readers once the i-th has delivered its event
completed(readers, i) ==
    [k \in 1..(Len(readers) - 1) |-> IF k < i THEN readers[k] ELSE readers[k + 1]]

(***************************************************************************)
(* The caller: one call of an exported function on the arguments held in   *)
(* table and X                                                             *)
(***************************************************************************)
NoCall == [op |-> "none"]
NoOut == [fn |-> "", error |-> NoError]

\* all sequences over S of length lo..hi
SeqsOf(S, lo, hi) == UNION {[1..k -> S] : k \in lo..hi}

Ready(t, Xs, p) ==
    /\ table = t
    /\ X = Xs
    /\ poly = p
    /\ call = NoCall
    /\ out = NoOut
    /\ pc = "ready"
    /\ app = InitialApp
    /\ section = InitialSection

(***************************************************************************)
(* SpecValidation: the validation functions on arbitrary input             *)
(***************************************************************************)
MaxTableLenV == 3
MaxPointsLenV == 3
MaxMinPoints == 4

NodeValuesV == {Num(0), Num(1), NaN, PosInf}
FunctionValuesV == {Num(1), NaN, NegInf}
PointValuesV == {Num(-1), Num(0), Frac(1, 2), Num(2), Num(3), NaN, NegInf}

\* tables of any shape, among them values that are no arrays at all
TablesV ==
    {Table(x, f) : x \in SeqsOf(NodeValuesV, 0, MaxTableLenV),
                   f \in SeqsOf(FunctionValuesV, 0, MaxTableLenV)}
    \cup {[x |-> <<>>, f |-> <<Num(1), Num(1)>>, xIsArray |-> FALSE, fIsArray |-> TRUE],
          [x |-> <<Num(0), Num(1)>>, f |-> <<>>, xIsArray |-> TRUE, fIsArray |-> FALSE],
          [x |-> <<>>, f |-> <<>>, xIsArray |-> FALSE, fIsArray |-> FALSE]}

\* the tables the points are validated against
PointTablesV ==
    {Table(<<Num(0), Num(1), Num(2)>>, <<Num(1), Num(1), Num(1)>>),
     Table(<<Num(0), Num(2)>>, <<Num(1), Num(1)>>),
     Table(<<>>, <<>>)}

TabularOptions ==
    {DefaultTabularOptions} \cup {MinPointsOptions(n) : n \in 0..MaxMinPoints}

InitValidation ==
    \/ \E t \in TablesV : Ready(t, <<>>, <<>>)
    \/ \E t \in PointTablesV, Xs \in SeqsOf(PointValuesV, 0, MaxPointsLenV) :
           Ready(t, Xs, <<>>)

ValidateTabular ==
    /\ pc = "ready"
    /\ \E options \in TabularOptions :
           /\ call' = [op |-> "validateTabular", options |-> options]
           /\ out' = [fn |-> "validateTabular",
                      error |-> validateTabular(table, options)]
    /\ pc' = "done"
    /\ UNCHANGED <<table, X, poly, app, section>>

ValidatePointsToEvaluate ==
    /\ pc = "ready"
    /\ \E requireInRange \in BOOLEAN :
           /\ call' = [op |-> "validatePointsToEvaluate",
                       requireInRange |-> requireInRange]
           /\ out' = [fn |-> "validatePointsToEvaluate",
                      error |-> validatePointsToEvaluate(table, X, requireInRange)]
    /\ pc' = "done"
    /\ UNCHANGED <<table, X, poly, app, section>>

NextValidation == ValidateTabular \/ ValidatePointsToEvaluate

SpecValidation == InitValidation /\ [][NextValidation]_vars

IsDataError(e) == e.name = "TabularDataError"

\* C1: validateTabular raises a TabularDataError if and only if x and f are not
\* both arrays, or their lengths differ, or there are fewer than minPoints
\* (default 2) nodes, or x is not strictly increasing, or some x[i] or f[i] is
\* not finite; on every other table it returns without error.
C1_MinPoints == IF call.options.hasMinPoints THEN call.options.minPoints ELSE 2

C1_Rejected ==
    \/ ~(table.xIsArray /\ table.fIsArray)
    \/ Len(table.x) # Len(table.f)
    \/ Len(table.x) < C1_MinPoints
    \/ \E i \in 1..(Len(table.x) - 1) : ~Lt(table.x[i], table.x[i + 1])
    \/ \E i \in 1..Len(table.x) : ~isFinite(table.x[i])
    \/ \E i \in 1..Len(table.f) : ~isFinite(table.f[i])

C1_ValidateTabularIff ==
    (pc = "done" /\ call.op = "validateTabular") =>
        /\ IsDataError(out.error) <=> C1_Rejected
        /\ (out.error = NoError) <=> ~C1_Rejected

\* a table of finite values and equal lengths is rejected for a repeated node
C1_Witness ==
    /\ pc = "done" /\ call.op = "validateTabular"
    /\ table.x = <<Num(0), Num(1), Num(1)>>
    /\ table.f = <<Num(1), Num(1), Num(1)>>
    /\ C1_MinPoints = 2
    /\ IsDataError(out.error)

\* C2: validatePointsToEvaluate raises a TabularDataError if X is empty or holds
\* a non-finite value; with requireInRange it also raises if some X[k] < x[0] or
\* X[k] > x[last]; points equal to the first or last node are accepted, and
\* without requireInRange points outside the node span are accepted.
C2_First == At(table.x, 0)
C2_Last == At(table.x, Len(table.x) - 1)

C2_ValidatePoints ==
    (pc = "done" /\ call.op = "validatePointsToEvaluate") =>
        /\ (Len(X) = 0 \/ \E k \in 1..Len(X) : ~isFinite(X[k]))
               => IsDataError(out.error)
        /\ (call.requireInRange
            /\ \E k \in 1..Len(X) : Lt(X[k], C2_First) \/ Gt(X[k], C2_Last))
               => IsDataError(out.error)
        /\ (/\ Len(X) > 0
            /\ \A k \in 1..Len(X) : isFinite(X[k])
            /\ call.requireInRange =>
                   \A k \in 1..Len(X) : Le(C2_First, X[k]) /\ Le(X[k], C2_Last))
               => out.error = NoError

\* with requireInRange, the two end nodes themselves are accepted
C2_Witness ==
    /\ pc = "done" /\ call.op = "validatePointsToEvaluate"
    /\ call.requireInRange
    /\ X = <<Num(2), Num(0)>>
    /\ table.x = <<Num(0), Num(2)>>
    /\ out.error = NoError

(***************************************************************************)
(* Spec: the dispatchers and the differentiation summary on tables of      *)
(* every kind (too short, malformed, uniform and non-uniform grids)        *)
(***************************************************************************)
MaxNodes == 6
MaxPointsLen == 2
MaxPoint == 10

\* x[i] = i*h for i = 0..n-1
UniformGrid(n, h) == [i \in 1..n |-> Mul(Num(i - 1), h)]

\* the unit grid with its last node moved one step further: not uniform
BentGrid(n) == [i \in 1..n |-> IF i = n THEN Num(n) ELSE Num(i - 1)]

GridSteps == {Num(1), Num(2), Frac(1, 2)}

Grids ==
    {UniformGrid(n, Num(1)) : n \in 0..MaxNodes}
    \cup {UniformGrid(5, h) : h \in GridSteps}
    \cup {BentGrid(n) : n \in 3..MaxNodes}

\* two columns of function values for a grid of n nodes
ValuesA(n) == [i \in 1..n |-> Num((i - 1) * (i - 1) - 3 * (i - 1) + 1)]
ValuesB(n) == [i \in 1..n |-> Num(((i * i * i) % 7) - 2 * i)]

MalformedTables ==
    {Table(<<Num(0), Num(1), Num(1), Num(2), Num(3)>>, ValuesA(5)),
     Table(<<Num(0), Num(1), Num(2), Num(3), PosInf>>, ValuesA(5)),
     Table(UniformGrid(5, Num(1)), <<Num(1), Num(0), NaN, Num(2), Num(1)>>),
     Table(UniformGrid(5, Num(1)), ValuesA(4)),
     Table(<<Num(2), Num(1)>>, ValuesA(2)),
     [x |-> <<>>, f |-> ValuesA(5), xIsArray |-> FALSE, fIsArray |-> TRUE]}

Tables ==
    {Table(x, ValuesA(Len(x))) : x \in Grids}
    \cup {Table(UniformGrid(5, Num(1)), ValuesB(5))}
    \cup MalformedTables

\* evaluation points: the halves from -1/2 to MaxPoint/2, a quarter, and NaN
Points == {Frac(k, 2) : k \in (-1)..MaxPoint} \cup {Frac(1, 4), NaN}

\* the points that follow the first one in a longer X
MorePoints == {Num(1), Num(-1)}

RECURSIVE PointSeqs(_)
PointSeqs(len) ==
    IF len = 0 THEN {<<>>}
    ELSE IF len = 1 THEN {<<p>> : p \in Points}
    ELSE {Append(Xs, q) : Xs \in PointSeqs(len - 1), q \in MorePoints}

PointVectors == UNION {PointSeqs(len) : len \in 0..MaxPointsLen}

MethodNames == {"lagrange", "newton", "interpolation5", "approximation5", "spline"}

Init == \E t \in Tables, Xs \in PointVectors : Ready(t, Xs, <<>>)

Interpolate ==
    /\ pc = "ready"
    /\ \E method \in MethodNames :
           /\ call' = [op |-> "interpolate", method |-> method]
           /\ out' = interpolate(method, table, X)
    /\ pc' = "done"
    /\ UNCHANGED <<table, X, poly, app, section>>

Differentiate ==
    /\ pc = "ready"
    /\ \E method \in MethodNames :
           /\ call' = [op |-> "differentiate", method |-> method]
           /\ out' = differentiate(method, table, X)
    /\ pc' = "done"
    /\ UNCHANGED <<table, X, poly, app, section>>

BuildDifferentiationMethodsSummary ==
    /\ pc = "ready"
    /\ call' = [op |-> "buildDifferentiationMethodsSummary"]
    /\ out' = buildDifferentiationMethodsSummary(table, X)
    /\ pc' = "done"
    /\ UNCHANGED <<table, X, poly, app, section>>

Next == Interpolate \/ Differentiate \/ BuildDifferentiationMethodsSummary

Spec == Init /\ [][Next]_vars

\* C3: interpolate raises MethodNotSupportedError for every method name other
\* than "lagrange" and "newton", and differentiate for every name other than
\* "interpolation5" and "approximation5", whatever the table and X are; for a
\* recognized name the call is handed to exactly the named method.
C3_Dispatch ==
    /\ (pc = "done" /\ call.op = "interpolate") =>
           CASE call.method = "lagrange" -> out = interpolateLagrange(table, X)
             [] call.method = "newton" -> out = interpolateNewton(table, X)
             [] OTHER -> out.error.name = "MethodNotSupportedError"
    /\ (pc = "done" /\ call.op = "differentiate") =>
           CASE call.method = "interpolation5" ->
                    out = differentiateByInterpolation5(table, X)
             [] call.method = "approximation5" ->
                    out = differentiateByApproximation5(table, X)
             [] OTHER -> out.error.name = "MethodNotSupportedError"

\* an unknown method name on a malformed table still gives MethodNotSupportedError
C3_Witness ==
    /\ pc = "done" /\ call.op = "interpolate" /\ call.method = "spline"
    /\ table \in MalformedTables
    /\ out.error.name = "MethodNotSupportedError"

\* C4: both differentiation methods raise a TabularDataError whenever the table
\* has fewer than 5 nodes and whenever some X[k] lies outside [x[0], x[last]];
\* no derivative values are returned in either case.
C4_DerivativeMethod ==
    /\ pc = "done" /\ call.op = "differentiate"
    /\ call.method \in {"interpolation5", "approximation5"}

C4_OutOfRange ==
    \E k \in 1..Len(X) :
        \/ Lt(X[k], At(table.x, 0))
        \/ Gt(X[k], At(table.x, Len(table.x) - 1))

C4_DifferentiationRejects ==
    (C4_DerivativeMethod /\ (Len(table.x) < 5 \/ C4_OutOfRange)) =>
        IsDataError(out.error) /\ out.Fd = <<>>

\* a well-formed table of 5 nodes and a point above the last node
C4_Witness ==
    /\ C4_DerivativeMethod /\ call.method = "interpolation5"
    /\ validateTabular(table, MinPointsOptions(5)) = NoError
    /\ Len(X) = 2 /\ Gt(X[1], At(table.x, Len(table.x) - 1))
    /\ IsDataError(out.error)

\* C5: interpolate with "lagrange" or "newton" on a valid table (at least 2
\* nodes) and a non-empty finite X succeeds and returns a value for every X[k],
\* also for X[k] below x[0] or above x[last].
C5_ValidTable ==
    /\ table.xIsArray /\ table.fIsArray
    /\ Len(table.x) = Len(table.f)
    /\ Len(table.x) >= 2
    /\ \A i \in 1..(Len(table.x) - 1) : Lt(table.x[i], table.x[i + 1])
    /\ \A i \in 1..Len(table.x) : isFinite(table.x[i]) /\ isFinite(table.f[i])

C5_ValidPoints == Len(X) > 0 /\ \A k \in 1..Len(X) : isFinite(X[k])

C5_ExtrapolationAllowed ==
    (/\ pc = "done" /\ call.op = "interpolate"
     /\ call.method \in {"lagrange", "newton"}
     /\ C5_ValidTable /\ C5_ValidPoints) =>
        /\ out.error = NoError
        /\ Len(out.F) = Len(X)
        /\ \A k \in 1..Len(X) : isFinite(out.F[k])

\* a point above the last node and one below the first, both evaluated by Newton
C5_Witness ==
    /\ pc = "done" /\ call.op = "interpolate" /\ call.method = "newton"
    /\ C5_ValidTable
    /\ Len(X) = 2
    /\ Gt(X[1], At(table.x, Len(table.x) - 1)) /\ Lt(X[2], At(table.x, 0))
    /\ out.error = NoError /\ Len(out.F) = 2

\* C10: buildDifferentiationMethodsSummary never aborts because a method
\* failed: it returns one row per X[k] in input order; a failed method's value
\* is null in every row and a method that did not fail has its value in every
\* row; if exactly one method failed, every absDiff is null and meanAbsDiff and
\* maxAbsDiff are null.
C10_Summary == pc = "done" /\ call.op = "buildDifferentiationMethodsSummary"

C10_InterpolationFailed == differentiateByInterpolation5(table, X).error # NoError
C10_ApproximationFailed == differentiateByApproximation5(table, X).error # NoError

C10_OneRowPerPoint ==
    /\ out.error = NoError
    /\ Len(out.rows) = Len(X)
    /\ \A k \in 1..Len(X) : out.rows[k].X = X[k]

C10_ExactlyOneFailed ==
    (C10_InterpolationFailed # C10_ApproximationFailed) =>
        /\ \A k \in 1..Len(out.rows) : out.rows[k].absDiff = Null
        /\ out.meanAbsDiff = Null
        /\ out.maxAbsDiff = Null

C10_SummaryDegrades ==
    C10_Summary =>
        /\ C10_OneRowPerPoint
        /\ \A k \in 1..Len(out.rows) :
               /\ (out.rows[k].interpolation5 = Null) <=> C10_InterpolationFailed
               /\ (out.rows[k].approximation5 = Null) <=> C10_ApproximationFailed
        /\ C10_ExactlyOneFailed

\* the claim as stated: whenever a method failed, the other method's value is
\* populated in every row
C10_AsStated ==
    C10_Summary =>
        /\ C10_OneRowPerPoint
        /\ C10_InterpolationFailed =>
               \A k \in 1..Len(out.rows) :
                   /\ out.rows[k].interpolation5 = Null
                   /\ out.rows[k].approximation5 # Null
        /\ C10_ApproximationFailed =>
               \A k \in 1..Len(out.rows) :
                   /\ out.rows[k].approximation5 = Null
                   /\ out.rows[k].interpolation5 # Null
        /\ C10_ExactlyOneFailed

\* a bent grid of 5 nodes: approximation5 fails, interpolation5 fills both rows
C10_Witness ==
    /\ C10_Summary
    /\ ~C10_InterpolationFailed /\ C10_ApproximationFailed
    /\ Len(out.rows) = 2
    /\ \A k \in 1..2 :
           /\ out.rows[k].interpolation5 # Null
           /\ out.rows[k].approximation5 = Null
    /\ out.meanAbsDiff = Null

\* C13: a successful interpolate or differentiate call returns the input X
\* unchanged (same length, same order, duplicates kept) and one value per
\* point, the k-th value being the value the method gives for X[k] alone, so
\* permuting or duplicating points permutes or duplicates the values.
C13_Successful ==
    /\ pc = "done" /\ call.op \in {"interpolate", "differentiate"}
    /\ out.error = NoError

C13_Values == IF call.op = "interpolate" THEN out.F ELSE out.Fd

\* the call of the same method on the same table with the one point p
C13_Alone(p) ==
    IF call.op = "interpolate"
    THEN LET r == interpolate(call.method, table, <<p>>)
         IN  [error |-> r.error, value |-> IF r.error = NoError THEN r.F[1] ELSE Null]
    ELSE LET r == differentiate(call.method, table, <<p>>)
         IN  [error |-> r.error, value |-> IF r.error = NoError THEN r.Fd[1] ELSE Null]

C13_EchoAndOrder ==
    C13_Successful =>
        /\ out.X = X
        /\ Len(C13_Values) = Len(X)
        /\ \A k \in 1..Len(X) :
               \E alone \in {C13_Alone(X[k])} :
                   alone.error = NoError /\ C13_Values[k] = alone.value

\* X = [2, 1] is not sorted: the values come back in the order of X
C13_Witness ==
    /\ C13_Successful /\ call.op = "interpolate" /\ call.method = "lagrange"
    /\ X = <<Num(2), Num(1)>>
    /\ out.X = <<Num(2), Num(1)>>
    /\ Len(out.F) = 2 /\ out.F[1] # out.F[2]
    /\ out.F[1] = interpolate("lagrange", table, <<Num(2)>>).F[1]

\* X = [1, 1]: the duplicate is kept, with the same derivative twice
C13_Duplicate ==
    /\ C13_Successful /\ call.op = "differentiate" /\ call.method = "approximation5"
    /\ X = <<Num(1), Num(1)>>
    /\ out.X = X /\ Len(out.Fd) = 2 /\ out.Fd[1] = out.Fd[2]

\* C19: a single interpolate or differentiate call is all-or-nothing: it
\* either raises, with the error of the method it dispatched to and no
\* result, or returns a numeric value for every X[k]; if one X[k] alone is
\* not acceptable the call raises and returns nothing for the other points.
C19_Call == pc = "done" /\ call.op \in {"interpolate", "differentiate"}

C19_Values == IF call.op = "interpolate" THEN out.F ELSE out.Fd

\* what the method the dispatcher selects raises
C19_MethodError ==
    CASE call.op = "interpolate" /\ call.method = "lagrange" ->
             interpolateLagrange(table, X).error
      [] call.op = "interpolate" /\ call.method = "newton" ->
             interpolateNewton(table, X).error
      [] call.op = "differentiate" /\ call.method = "interpolation5" ->
             differentiateByInterpolation5(table, X).error
      [] call.op = "differentiate" /\ call.method = "approximation5" ->
             differentiateByApproximation5(table, X).error
      [] OTHER -> out.error

\* the same call with the k-th point alone
C19_Alone(k) ==
    IF call.op = "interpolate" THEN interpolate(call.method, table, <<X[k]>>)
    ELSE differentiate(call.method, table, <<X[k]>>)

C19_AllOrNothing ==
    C19_Call =>
        \/ /\ out.error # NoError
           /\ out.error = C19_MethodError
           /\ C19_Values = <<>> /\ out.X = <<>>
        \/ /\ out.error = NoError
           /\ Len(C19_Values) = Len(X)
           /\ \A k \in 1..Len(X) :
                  /\ C19_Values[k] # Null /\ ~isNaN(C19_Values[k])
                  /\ C19_Alone(k).error = NoError

\* step 2, X = [2, 1]: 2 is a node and alone has a derivative, 1 is not near
\* a node: the call raises and returns nothing
C19_Witness ==
    /\ C19_Call /\ call.op = "differentiate" /\ call.method = "approximation5"
    /\ Len(X) = 2
    /\ C19_Alone(1).error = NoError /\ Len(C19_Alone(1).Fd) = 1
    /\ C19_Alone(2).error # NoError
    /\ validatePointsToEvaluate(table, X, TRUE) = NoError
    /\ IsDataError(out.error) /\ out.Fd = <<>>

(***************************************************************************)
(* SpecApprox5: differentiateByApproximation5 on grids whose interior      *)
(* nodes are off the uniform positions by multiples of 1e-6, at points     *)
(* that are off the nodes by multiples of 1/2000                           *)
(***************************************************************************)
MaxNodesA == 5
MaxShift == 1

\* x[i] = i*h, with x[1] and x[2] moved by e1 and e2 millionths
ShiftedGrid(n, h, e1, e2) ==
    [i \in 1..n |->
        Add(Mul(Num(i - 1), h),
            Frac(IF i = 2 THEN e1 ELSE IF i = 3 THEN e2 ELSE 0, 1000000))]

GridsA ==
    {ShiftedGrid(n, h, e1, e2) :
        n \in 5..MaxNodesA, h \in {Num(1), Num(2)},
        e1 \in (-MaxShift)..MaxShift, e2 \in (-MaxShift)..MaxShift}

\* distances from a node, in units of 1/2000
Offsets == {-2, 0, 1, 2, 3, 4, 6}

PointsA(x) ==
    {Add(At(x, i), Frac(k, 2000)) : i \in 0..(Len(x) - 1), k \in Offsets}

MorePointsA(x) == {At(x, 1), Add(At(x, Len(x) - 2), Frac(1, 2000))}

RECURSIVE PointSeqsA(_, _)
PointSeqsA(x, len) ==
    IF len = 1 THEN {<<p>> : p \in PointsA(x)}
    ELSE {Append(Xs, q) : Xs \in PointSeqsA(x, len - 1), q \in MorePointsA(x)}

InitApprox5 ==
    \E x \in GridsA :
        \E Xs \in UNION {PointSeqsA(x, len) : len \in 1..MaxPointsLen} :
            Ready(Table(x, ValuesB(Len(x))), Xs, <<>>)

DifferentiateByApproximation5 ==
    /\ pc = "ready"
    /\ call' = [op |-> "differentiateByApproximation5"]
    /\ out' = differentiateByApproximation5(table, X)
    /\ pc' = "done"
    /\ UNCHANGED <<table, X, poly, app, section>>

NextApprox5 == DifferentiateByApproximation5

SpecApprox5 == InitApprox5 /\ [][NextApprox5]_vars

\* C9: approximation5 raises a TabularDataError when some spacing x[i]-x[i-1]
\* differs from the mean spacing h by more than 1e-6, and when some X[k] is
\* farther than |h|*1e-3 from its nearest node; it computes a value for X[k]
\* only when |X[k] - x[nearest]| <= |h|*1e-3, and then by the formula of that
\* nearest node's index.
C9_n == Len(table.x)
C9_h == Div(Sub(table.x[C9_n], table.x[1]), Num(C9_n - 1))

C9_NonUniform ==
    \E i \in 2..C9_n :
        Gt(MathAbs(Sub(Sub(table.x[i], table.x[i - 1]), C9_h)), Frac(1, 1000000))

\* the 0-based index of the node nearest to p (the lowest, should two tie)
C9_Nearest(p) ==
    CHOOSE i \in 0..(C9_n - 1) :
        /\ \A j \in 0..(C9_n - 1) :
               Le(MathAbs(Sub(At(table.x, i), p)), MathAbs(Sub(At(table.x, j), p)))
        /\ \A j \in 0..(i - 1) :
               Lt(MathAbs(Sub(At(table.x, i), p)), MathAbs(Sub(At(table.x, j), p)))

C9_Distance(p) == MathAbs(Sub(p, At(table.x, C9_Nearest(p))))

C9_NodeTolerance == Mul(MathAbs(C9_h), Frac(1, 1000))

C9_Approximation5Tolerances ==
    (pc = "done" /\ call.op = "differentiateByApproximation5") =>
        /\ C9_NonUniform => IsDataError(out.error)
        /\ (\E k \in 1..Len(X) : Gt(C9_Distance(X[k]), C9_NodeTolerance))
               => IsDataError(out.error)
        /\ out.error = NoError =>
               /\ Len(out.Fd) = Len(X)
               /\ \A k \in 1..Len(X) :
                      /\ Le(C9_Distance(X[k]), C9_NodeTolerance)
                      /\ out.Fd[k] =
                             finiteDifference5AtIndex(
                                 table.f, C9_Nearest(X[k]), C9_h).value

\* a grid with a spacing exactly 1e-6 off the mean, and a point exactly
\* |h|*1e-3 away from its nearest node: both are accepted
C9_Witness ==
    /\ pc = "done" /\ call.op = "differentiateByApproximation5"
    /\ \E i \in 2..C9_n :
           MathAbs(Sub(Sub(table.x[i], table.x[i - 1]), C9_h)) = Frac(1, 1000000)
    /\ \E k \in 1..Len(X) : C9_Distance(X[k]) = C9_NodeTolerance
    /\ out.error = NoError

(***************************************************************************)
(* SpecPoly: the test suite's setting (tests/interpolation.test.ts,        *)
(* tests/differentiation.test.ts): a polynomial is sampled at the nodes    *)
(* and the Raw entry points are called                                     *)
(***************************************************************************)
MaxNodeP == 5

\* x^k as the coefficients <<c0, ..., ck>>
Monomial(k) == [i \in 1..(k + 1) |-> IF i = k + 1 THEN 1 ELSE 0]

\* quadratic(x) = x^2 + 2x + 3 and poly(x) = x^4 - 2x^3 + x - 1 of the tests
quadratic == <<3, 2, 1>>
quartic == <<-1, 1, 0, -2, 1>>

Polynomials == {Monomial(k) : k \in 0..4} \cup {quadratic, quartic}

\* c[i] + x*(c[i+1] + x*(...)), the value of the polynomial with coefficients c
RECURSIVE hornerFrom(_, _, _)
hornerFrom(c, x, i) ==
    IF i > Len(c) THEN Num(0)
    ELSE Add(Num(c[i]), Mul(x, hornerFrom(c, x, i + 1)))

PolyValue(p, x) == hornerFrom(p, x, 1)

\* polyDeriv of the tests: the analytic derivative
PolyDerivative(p, x) == hornerFrom([i \in 1..(Len(p) - 1) |-> i * p[i + 1]], x, 1)

RECURSIVE SortedSeq(_)
SortedSeq(S) ==
    IF S = {} THEN <<>>
    ELSE LET lo == CHOOSE a \in S : \A b \in S : a <= b
         IN  <<lo>> \o SortedSeq(S \ {lo})

\* strictly increasing integer nodes drawn from -2..(MaxNodeP - 2)
IntegerGrid(S) == LET q == SortedSeq(S) IN [i \in 1..Len(q) |-> Num(q[i] - 2)]

\* x[i] = (i - 2)*h
ScaledGrid(n, h) == [i \in 1..n |-> Mul(Num(i - 3), h)]

GridsP ==
    {IntegerGrid(S) : S \in {T \in SUBSET (0..MaxNodeP) : Cardinality(T) >= 2}}
    \cup {ScaledGrid(n, h) : n \in 5..(MaxNodeP + 1), h \in {Num(2), Frac(1, 2)}}

Midpoints(x) ==
    [i \in 1..(Len(x) - 1) |-> Div(Add(x[i], x[i + 1]), Num(2))]

\* X of the tests: every node, every midpoint, one point at a time, and a point
\* on either side of the node span
PointVectorsP(x) ==
    {x, Midpoints(x)}
    \cup {<<x[i]>> : i \in 1..Len(x)}
    \cup {<<Midpoints(x)[i]>> : i \in 1..(Len(x) - 1)}
    \cup {<<Sub(x[1], Num(1))>>, <<Add(x[Len(x)], Frac(1, 2))>>}

Sample(p, x) == [i \in 1..Len(x) |-> PolyValue(p, x[i])]

InitPoly ==
    \E x \in GridsP :
        \E p \in {q \in Polynomials : Len(q) <= Len(x)} :
            \E Xs \in PointVectorsP(x) :
                Ready(Table(x, Sample(p, x)), Xs, p)

InterpolateRaw ==
    /\ pc = "ready"
    /\ \E method \in {"lagrange", "newton"} :
           /\ call' = [op |-> "interpolateRaw", method |-> method]
           /\ out' = interpolateRaw(method, table.x, table.f, X)
    /\ pc' = "done"
    /\ UNCHANGED <<table, X, poly, app, section>>

DifferentiateRaw ==
    /\ pc = "ready"
    /\ \E method \in {"interpolation5", "approximation5"} :
           /\ call' = [op |-> "differentiateRaw", method |-> method]
           /\ out' = differentiateRaw(method, table.x, table.f, X)
    /\ pc' = "done"
    /\ UNCHANGED <<table, X, poly, app, section>>

NextPoly == InterpolateRaw \/ DifferentiateRaw

SpecPoly == InitPoly /\ [][NextPoly]_vars

\* C6: for a polynomial p of degree <= n-1 sampled at n strictly increasing
\* nodes, Lagrange and Newton interpolation both return p(X[k]) at every X[k],
\* inside or outside the node span, and so agree with each other (exact
\* arithmetic).
C6_PolynomialReproduced ==
    (pc = "done" /\ call.op = "interpolateRaw") =>
        /\ out.error = NoError
        /\ Len(out.value) = Len(X)
        /\ \A k \in 1..Len(X) : out.value[k] = PolyValue(poly, X[k])
        /\ call.method = "lagrange" =>
               out.value = interpolateNewtonRaw(table.x, table.f, X).value

\* Newton on 4 nodes reproduces a cubic at a point outside the node span
C6_Witness ==
    /\ pc = "done" /\ call.op = "interpolateRaw" /\ call.method = "newton"
    /\ Len(table.x) = 4 /\ Len(poly) = 4
    /\ Len(X) = 1 /\ Gt(X[1], table.x[4])
    /\ out.error = NoError
    /\ out.value[1] = PolyValue(poly, X[1])

\* C7: for a polynomial p of degree <= 4 sampled at >= 5 strictly increasing
\* nodes, interpolation5 returns p'(X[k]) at every evaluation point inside the
\* node span, whichever 5-node stencil is selected (exact arithmetic).
C7_InRange ==
    \A k \in 1..Len(X) : Le(table.x[1], X[k]) /\ Le(X[k], table.x[Len(table.x)])

C7_Interpolation5Exact ==
    (/\ pc = "done" /\ call.op = "differentiateRaw"
     /\ call.method = "interpolation5"
     /\ Len(table.x) >= 5 /\ Len(poly) <= 5 /\ C7_InRange) =>
        /\ out.error = NoError
        /\ Len(out.value) = Len(X)
        /\ \A k \in 1..Len(X) : out.value[k] = PolyDerivative(poly, X[k])

\* a quartic on 6 nodes, differentiated at the midpoints: the stencil starts at
\* node 0 for the first of them and at node 1 for the last
C7_Witness ==
    /\ pc = "done" /\ call.op = "differentiateRaw"
    /\ call.method = "interpolation5"
    /\ Len(table.x) = 6 /\ Len(poly) = 5
    /\ X = Midpoints(table.x)
    /\ get5PointStencilIndices(table, X[1]).value[1] = 0
    /\ get5PointStencilIndices(table, X[5]).value[1] = 1
    /\ out.error = NoError

\* C8: on a uniform grid of >= 5 nodes and a polynomial p of degree <= 4,
\* approximation5 evaluated at nodes returns p'(x[i]) at every node index i:
\* each of the five formulas is exact (exact arithmetic).
C8_Uniform ==
    \A i \in 2..(Len(table.x) - 1) :
        Sub(table.x[i + 1], table.x[i]) = Sub(table.x[2], table.x[1])

C8_AtNodes == \A k \in 1..Len(X) : \E i \in 1..Len(table.x) : X[k] = table.x[i]

C8_Approximation5ExactAtNodes ==
    (/\ pc = "done" /\ call.op = "differentiateRaw"
     /\ call.method = "approximation5"
     /\ Len(table.x) >= 5 /\ Len(poly) <= 5 /\ C8_Uniform /\ C8_AtNodes) =>
        /\ out.error = NoError
        /\ Len(out.value) = Len(X)
        /\ \A k \in 1..Len(X) : out.value[k] = PolyDerivative(poly, X[k])

\* a quartic on a uniform grid of 6 nodes with step 1/2, differentiated at all
\* its nodes: the forward, shifted, central and backward formulas are all used
C8_Witness ==
    /\ pc = "done" /\ call.op = "differentiateRaw"
    /\ call.method = "approximation5"
    /\ Len(table.x) = 6 /\ Len(poly) = 5 /\ C8_Uniform
    /\ Sub(table.x[2], table.x[1]) = Frac(1, 2)
    /\ X = table.x
    /\ out.error = NoError

(***************************************************************************)
(* SpecSummary: the two summaries with the rounding of the methods.  In    *)
(* exact arithmetic Lagrange and Newton return the same value, and so do   *)
(* the two derivative methods at a node; in floating point the results     *)
(* differ by rounding errors (and, off a node, by more).  Each value a     *)
(* method returns is its exact value plus an error drawn from              *)
(* RoundingErrors, whose sizes stand for the errors of the build.          *)
(***************************************************************************)
MaxRows == 2

RoundingErrors == {Num(0), Frac(1, 8), Frac(-1, 4)}

RoundingVectors(Xs) == [1..Len(Xs) -> RoundingErrors]

RoundedF(result, e) ==
    IF result.error # NoError THEN result
    ELSE [result EXCEPT !.F = [k \in 1..Len(result.F) |-> Add(result.F[k], e[k])]]

RoundedFd(result, e) ==
    IF result.error # NoError THEN result
    ELSE [result EXCEPT !.Fd = [k \in 1..Len(result.Fd) |-> Add(result.Fd[k], e[k])]]

\* the first len nodes as evaluation points
PointsS(len) == [k \in 1..len |-> Num(k - 1)]

\* both derivative methods work, approximation5 fails, both fail
TablesS ==
    {Table(UniformGrid(5, Num(1)), ValuesB(5)),
     Table(BentGrid(5), ValuesA(5)),
     Table(UniformGrid(3, Num(1)), ValuesA(3))}

InitSummary ==
    \E t \in TablesS, len \in 0..MaxRows : Ready(t, PointsS(len), <<>>)

BuildDifferentiationMethodsSummaryRounded ==
    /\ pc = "ready"
    /\ \E exact1 \in {differentiateByInterpolation5(table, X)},
          exact2 \in {differentiateByApproximation5(table, X)},
          e1 \in RoundingVectors(X), e2 \in RoundingVectors(X) :
               LET interpolationResult == tryMethod(RoundedFd(exact1, e1))
                   approximationResult == tryMethod(RoundedFd(exact2, e2))
               IN  /\ call' = [op |-> "buildDifferentiationMethodsSummary",
                               interpolationResult |-> interpolationResult,
                               approximationResult |-> approximationResult]
                   /\ out' = summaryOf(X, interpolationResult, approximationResult)
    /\ pc' = "done"
    /\ UNCHANGED <<table, X, poly, app, section>>

BuildInterpolationMethodsSummaryRounded ==
    /\ pc = "ready"
    /\ \E exact1 \in {interpolateLagrange(table, X)},
          exact2 \in {interpolateNewton(table, X)},
          e1 \in RoundingVectors(X), e2 \in RoundingVectors(X) :
               LET lagrangeResult == RoundedF(exact1, e1)
                   newtonResult == RoundedF(exact2, e2)
               IN  /\ call' = [op |-> "buildInterpolationMethodsSummary",
                               lagrangeResult |-> lagrangeResult,
                               newtonResult |-> newtonResult]
                   /\ out' = interpolationSummaryOf(X, lagrangeResult, newtonResult)
    /\ pc' = "done"
    /\ UNCHANGED <<table, X, poly, app, section>>

NextSummary ==
    BuildDifferentiationMethodsSummaryRounded \/ BuildInterpolationMethodsSummaryRounded

SpecSummary == InitSummary /\ [][NextSummary]_vars

\* C11: in the summary a row's absDiff is non-null exactly when both of its
\* values are non-null, and is then |interpolation5 - approximation5|;
\* meanAbsDiff and maxAbsDiff are the mean and the maximum of the non-null
\* absDiff values and are null exactly when no row has both values.
C11_Summary == pc = "done" /\ call.op = "buildDifferentiationMethodsSummary"

C11_RowsWithBoth ==
    {k \in 1..Len(out.rows) :
        out.rows[k].interpolation5 # Null /\ out.rows[k].approximation5 # Null}

C11_IsAbsDiff(row) ==
    /\ Ge(row.absDiff, Num(0))
    /\ \/ Add(row.approximation5, row.absDiff) = row.interpolation5
       \/ Add(row.interpolation5, row.absDiff) = row.approximation5

RECURSIVE C11_Sum(_)
C11_Sum(S) ==
    IF S = {} THEN Num(0)
    ELSE LET k == CHOOSE j \in S : TRUE
         IN  Add(out.rows[k].absDiff, C11_Sum(S \ {k}))

C11_AbsDiffAndAggregates ==
    C11_Summary =>
        /\ \A k \in 1..Len(out.rows) :
               /\ (out.rows[k].absDiff # Null) <=> (k \in C11_RowsWithBoth)
               /\ k \in C11_RowsWithBoth => C11_IsAbsDiff(out.rows[k])
        /\ (out.meanAbsDiff = Null) <=> (C11_RowsWithBoth = {})
        /\ (out.maxAbsDiff = Null) <=> (C11_RowsWithBoth = {})
        /\ C11_RowsWithBoth # {} =>
               /\ Mul(out.meanAbsDiff, Num(Cardinality(C11_RowsWithBoth)))
                      = C11_Sum(C11_RowsWithBoth)
               /\ \E k \in C11_RowsWithBoth : out.rows[k].absDiff = out.maxAbsDiff
               /\ \A k \in C11_RowsWithBoth : Le(out.rows[k].absDiff, out.maxAbsDiff)

\* two rows with both values, differences 3/8 and 1/8: mean 1/4, max 3/8
C11_Witness ==
    /\ C11_Summary
    /\ Len(out.rows) = 2 /\ C11_RowsWithBoth = {1, 2}
    /\ out.rows[1].absDiff = Frac(3, 8)
    /\ Lt(out.rows[1].interpolation5, out.rows[1].approximation5)
    /\ out.rows[2].absDiff = Frac(1, 8)
    /\ out.meanAbsDiff = Frac(1, 4)
    /\ out.maxAbsDiff = Frac(3, 8)

\* C12: on valid input buildInterpolationMethodsSummary returns one row per
\* X[k] in input order, with lagrange and newton the values the two methods
\* return for X[k], absDiff = |lagrange - newton|, meanAbsDiff the sum of all
\* absDiff divided by len(X) and maxAbsDiff the largest absDiff.
C12_Summary == pc = "done" /\ call.op = "buildInterpolationMethodsSummary"

C12_ValidInput ==
    /\ validateTabular(table, DefaultTabularOptions) = NoError
    /\ validatePointsToEvaluate(table, X, FALSE) = NoError

C12_IsAbsDiff(row) ==
    /\ Ge(row.absDiff, Num(0))
    /\ \/ Add(row.newton, row.absDiff) = row.lagrange
       \/ Add(row.lagrange, row.absDiff) = row.newton

RECURSIVE C12_Sum(_)
C12_Sum(k) == IF k = 0 THEN Num(0) ELSE Add(C12_Sum(k - 1), out.rows[k].absDiff)

\* v is the value a method returns where its exact value is w
C12_Rounds(w, v) == \E e \in RoundingErrors : v = Add(w, e)

C12_InterpolationSummary ==
    (C12_Summary /\ C12_ValidInput) =>
        /\ out.error = NoError
        /\ Len(out.rows) = Len(X)
        /\ \E lagrange \in {interpolate("lagrange", table, X)},
              newton \in {interpolate("newton", table, X)} :
               \A k \in 1..Len(X) :
                   /\ out.rows[k].X = X[k]
                   /\ out.rows[k].lagrange = call.lagrangeResult.F[k]
                   /\ out.rows[k].newton = call.newtonResult.F[k]
                   /\ C12_Rounds(lagrange.F[k], out.rows[k].lagrange)
                   /\ C12_Rounds(newton.F[k], out.rows[k].newton)
                   /\ C12_IsAbsDiff(out.rows[k])
                   /\ Le(out.rows[k].absDiff, out.maxAbsDiff)
        /\ Mul(out.meanAbsDiff, Num(Len(X))) = C12_Sum(Len(X))
        /\ \E k \in 1..Len(X) : out.rows[k].absDiff = out.maxAbsDiff

\* two points, differences 3/8 and 1/8: the largest is not the last
C12_Witness ==
    /\ C12_Summary /\ C12_ValidInput
    /\ Len(out.rows) = 2
    /\ out.rows[1].absDiff = Frac(3, 8)
    /\ out.rows[2].absDiff = Frac(1, 8)
    /\ out.meanAbsDiff = Frac(1, 4)
    /\ out.maxAbsDiff = Frac(3, 8)

(***************************************************************************)
(* SpecMemory: the four core operations with the arrays the caller passed  *)
(* read back from memory after the call                                    *)
(***************************************************************************)
InitMemory == \E t \in Tables, Xs \in PointVectors : Ready(t, Xs, <<>>)

InterpolateInMemory ==
    /\ pc = "ready"
    /\ \E method \in MethodNames :
       \E after \in {interpolateInMemory(method, table, X)} :
           /\ call' = [op |-> "interpolate", method |-> method]
           /\ out' = interpolate(method, table, X)
           /\ table' = [table EXCEPT !.x = after.x, !.f = after.f]
           /\ X' = after.X
    /\ pc' = "done"
    /\ UNCHANGED <<poly, app, section>>

DifferentiateInMemory ==
    /\ pc = "ready"
    /\ \E method \in MethodNames :
       \E after \in {differentiateInMemory(method, table, X)} :
           /\ call' = [op |-> "differentiate", method |-> method]
           /\ out' = differentiate(method, table, X)
           /\ table' = [table EXCEPT !.x = after.x, !.f = after.f]
           /\ X' = after.X
    /\ pc' = "done"
    /\ UNCHANGED <<poly, app, section>>

BuildInterpolationMethodsSummaryInMemory ==
    /\ pc = "ready"
    /\ \E after \in {buildInterpolationMethodsSummaryInMemory(table, X)} :
           /\ call' = [op |-> "buildInterpolationMethodsSummary"]
           /\ out' = buildInterpolationMethodsSummary(table, X)
           /\ table' = [table EXCEPT !.x = after.x, !.f = after.f]
           /\ X' = after.X
    /\ pc' = "done"
    /\ UNCHANGED <<poly, app, section>>

BuildDifferentiationMethodsSummaryInMemory ==
    /\ pc = "ready"
    /\ \E after \in {buildDifferentiationMethodsSummaryInMemory(table, X)} :
           /\ call' = [op |-> "buildDifferentiationMethodsSummary"]
           /\ out' = buildDifferentiationMethodsSummary(table, X)
           /\ table' = [table EXCEPT !.x = after.x, !.f = after.f]
           /\ X' = after.X
    /\ pc' = "done"
    /\ UNCHANGED <<poly, app, section>>

NextMemory ==
    \/ InterpolateInMemory
    \/ DifferentiateInMemory
    \/ BuildInterpolationMethodsSummaryInMemory
    \/ BuildDifferentiationMethodsSummaryInMemory

SpecMemory == InitMemory /\ [][NextMemory]_vars

\* C14: no core operation mutates its inputs: across every call of
\* interpolate, differentiate and the two summaries, returning or raising,
\* table.x, table.f and X keep their values; Newton's build writes its copy.
C14_NoMutation == [][table' = table /\ X' = X]_vars

\* a Newton call that returned, whose build overwrote elements of coef
C14_Witness ==
    /\ pc = "done" /\ call.op = "interpolate" /\ call.method = "newton"
    /\ out.error = NoError
    /\ Len(table.f) = 5
    /\ buildNewtonCoefficientsInMemory(Memory(table, X)).coef # table.f
    /\ buildNewtonCoefficientsInMemory(Memory(table, X)).coef
           = buildNewtonCoefficients(table.x, table.f)

\* a call that raised
C14_Raised ==
    /\ pc = "done" /\ call.op = "buildInterpolationMethodsSummary"
    /\ out.error # NoError

(***************************************************************************)
(* SpecUtils: the grid utilities and the finite-difference formulas called *)
(* directly, on arrays of finite numbers that need not be sorted           *)
(***************************************************************************)
MaxLenU == 3
MaxNodesU == 8

NodeValuesU == {Num(0), Num(1), Num(2), Frac(5, 2)}

\* every short array over NodeValuesU (unsorted and repeated nodes included)
\* and the uniform and bent grids that are long enough for a stencil
ArraysU ==
    SeqsOf(NodeValuesU, 0, MaxLenU)
    \cup {UniformGrid(n, Num(1)) : n \in 4..MaxNodesU}
    \cup {BentGrid(n) : n \in 4..MaxNodesU}

PointsU == {Frac(k, 2) : k \in (-1)..(2 * MaxNodesU)}

TolerancesU == {Num(0), Frac(1, 4), Num(1)}

StepsU == {Num(1), Frac(1, 2), Num(-2)}

InitUtils ==
    \E x \in ArraysU, p \in PointsU : Ready(Table(x, ValuesB(Len(x))), <<p>>, <<>>)

FindNearestIndex ==
    /\ pc = "ready"
    /\ call' = [op |-> "findNearestIndex"]
    /\ out' = findNearestIndex(table.x, X[1])
    /\ pc' = "done"
    /\ UNCHANGED <<table, X, poly, app, section>>

GetApproximateStep ==
    /\ pc = "ready"
    /\ \E tolerance \in TolerancesU :
           /\ call' = [op |-> "getApproximateStep", tolerance |-> tolerance]
           /\ out' = Return(getApproximateStep(table.x, tolerance))
    /\ pc' = "done"
    /\ UNCHANGED <<table, X, poly, app, section>>

Get5PointStencilIndices ==
    /\ pc = "ready"
    /\ call' = [op |-> "get5PointStencilIndices"]
    /\ out' = get5PointStencilIndices(table, X[1])
    /\ pc' = "done"
    /\ UNCHANGED <<table, X, poly, app, section>>

FiniteDifference5AtIndex ==
    /\ pc = "ready"
    /\ \E i \in 0..(IF Len(table.f) = 0 THEN 0 ELSE Len(table.f) - 1), h \in StepsU :
           /\ call' = [op |-> "finiteDifference5AtIndex", i |-> i, h |-> h]
           /\ out' = finiteDifference5AtIndex(table.f, i, h)
    /\ pc' = "done"
    /\ UNCHANGED <<table, X, poly, app, section>>

NextUtils ==
    \/ FindNearestIndex
    \/ GetApproximateStep
    \/ Get5PointStencilIndices
    \/ FiniteDifference5AtIndex

SpecUtils == InitUtils /\ [][NextUtils]_vars

\* C15: get5PointStencilIndices raises a DataError when len(x) < 5; otherwise
\* it returns the 5 consecutive indices start..start+4 with start = nearest-2
\* clamped into [0, len(x)-5], all inside [0, len(x)-1]: the window is
\* shifted, never truncated.
C15_Stencil == pc = "done" /\ call.op = "get5PointStencilIndices"

C15_Nearest == findNearestIndex(table.x, X[1]).value

C15_Start ==
    LET n == Len(table.x)
    IN  IF C15_Nearest - 2 < 0 THEN 0
        ELSE IF C15_Nearest - 2 > n - 5 THEN n - 5
        ELSE C15_Nearest - 2

C15_StencilClamped ==
    C15_Stencil =>
        IF Len(table.x) < 5
        THEN IsDataError(out.error)
        ELSE /\ out.error = NoError
             /\ Len(out.value) = 5
             /\ \A m \in 1..5 :
                    /\ out.value[m] = C15_Start + (m - 1)
                    /\ out.value[m] \in 0..(Len(table.x) - 1)

\* 8 nodes, nearest node 6: the window 4..8 would run off, 3..7 is returned
C15_Witness ==
    /\ C15_Stencil /\ out.error = NoError
    /\ Len(table.x) = 8 /\ C15_Nearest = 6
    /\ out.value = <<3, 4, 5, 6, 7>>

\* the window centred on the nearest node
C15_Centred ==
    /\ C15_Stencil /\ out.error = NoError
    /\ Len(table.x) = 8 /\ C15_Nearest = 3
    /\ out.value = <<1, 2, 3, 4, 5>>

\* C16: findNearestIndex raises a DataError on empty x; otherwise it returns
\* an index i with |x[i]-point| <= |x[j]-point| for every j, the lowest of the
\* indices that attain the minimum.
C16_Nearest == pc = "done" /\ call.op = "findNearestIndex"

C16_Dist(j) == MathAbs(Sub(At(table.x, j), X[1]))

C16_NearestLowest ==
    C16_Nearest =>
        IF Len(table.x) = 0
        THEN IsDataError(out.error)
        ELSE /\ out.error = NoError
             /\ out.value \in 0..(Len(table.x) - 1)
             /\ \A j \in 0..(Len(table.x) - 1) :
                    /\ Le(C16_Dist(out.value), C16_Dist(j))
                    /\ j < out.value => Lt(C16_Dist(out.value), C16_Dist(j))

\* x = [2, 0, 1], point 1/2: indices 1 and 2 are equally near, 1 is returned
C16_Witness ==
    /\ C16_Nearest /\ out.error = NoError
    /\ table.x = <<Num(2), Num(0), Num(1)>> /\ X = <<Frac(1, 2)>>
    /\ C16_Dist(1) = C16_Dist(2)
    /\ out.value = 1

\* C17: getApproximateStep returns null when x has fewer than 2 nodes or when
\* some consecutive spacing differs from the mean spacing h by more than the
\* tolerance; otherwise it returns h, the mean of the spacings; it never
\* raises.
C17_Step == pc = "done" /\ call.op = "getApproximateStep"

C17_Spacing(i) == Sub(table.x[i + 1], table.x[i])

\* the spacings telescope: their mean is (last - first) / (n - 1)
C17_Mean ==
    Div(Sub(table.x[Len(table.x)], table.x[1]), Num(Len(table.x) - 1))

C17_TooUneven ==
    \E i \in 1..(Len(table.x) - 1) :
        Gt(MathAbs(Sub(C17_Spacing(i), C17_Mean)), call.tolerance)

C17_ApproximateStep ==
    C17_Step =>
        /\ out.error = NoError
        /\ IF Len(table.x) < 2 THEN out.value = Null
           ELSE IF C17_TooUneven THEN out.value = Null
           ELSE out.value = C17_Mean

\* spacings 1/2 and 1, mean 3/4: uneven, but within the tolerance 1/4
C17_Witness ==
    /\ C17_Step
    /\ table.x = <<Num(1), Num(2), Frac(5, 2)>> /\ call.tolerance = Frac(1, 4)
    /\ out.value = Frac(3, 4)

\* the same array under tolerance 0 has no step
C17_Absent ==
    /\ C17_Step
    /\ table.x = <<Num(1), Num(2), Frac(5, 2)>> /\ call.tolerance = Num(0)
    /\ out.value = Null

\* C18: finiteDifference5AtIndex(f, i, h) with n = len(f) >= 5 and
\* 0 <= i <= n-1 applies exactly one formula selected by index: forward at
\* i = 0, shifted forward at i = 1, central exactly when 2 <= i <= n-3,
\* shifted backward at i = n-2, backward at i = n-1; the five cases are
\* mutually exclusive and no formula reads f outside [0, n-1]; with n < 5 it
\* raises a DataError.
C18_Difference == pc = "done" /\ call.op = "finiteDifference5AtIndex"

\* the five cases: name, index test, weights of f[start..start+4]
C18_Cases ==
    LET n == Len(table.f)
        i == call.i
    IN  {[name |-> "forward", applies |-> i = 0,
          weights |-> <<-25, 48, -36, 16, -3>>, start |-> 0],
         [name |-> "shifted forward", applies |-> i = 1,
          weights |-> <<-3, -10, 18, -6, 1>>, start |-> 0],
         [name |-> "central", applies |-> 2 <= i /\ i <= n - 3,
          weights |-> <<1, -8, 0, 8, -1>>, start |-> i - 2],
         [name |-> "shifted backward", applies |-> i = n - 2,
          weights |-> <<-1, 6, -18, 10, 3>>, start |-> n - 5],
         [name |-> "backward", applies |-> i = n - 1,
          weights |-> <<3, -16, 36, -48, 25>>, start |-> n - 5]}

RECURSIVE C18_Weighted(_, _)
C18_Weighted(case, m) ==
    IF m = 0 THEN Num(0)
    ELSE Add(C18_Weighted(case, m - 1),
             Mul(Num(case.weights[m]), At(table.f, case.start + m - 1)))

C18_Formula(case) == Div(C18_Weighted(case, 5), Mul(Num(12), call.h))

C18_OneFormula ==
    C18_Difference =>
        IF Len(table.f) < 5
        THEN IsDataError(out.error)
        ELSE /\ out.error = NoError
             /\ Cardinality({case \in C18_Cases : case.applies}) = 1
             /\ \A case \in C18_Cases :
                    case.applies =>
                        /\ out.value = C18_Formula(case)
                        /\ 0 <= case.start /\ case.start + 4 <= Len(table.f) - 1
             /\ isFinite(out.value)

\* 5 nodes: node 1 takes the shifted forward formula, not the one of n-2,
\* and the two formulas give different values
C18_Witness ==
    /\ C18_Difference /\ out.error = NoError
    /\ Len(table.f) = 5 /\ call.i = 1
    /\ \E case \in C18_Cases :
           /\ case.name = "shifted forward" /\ out.value = C18_Formula(case)
    /\ \E case \in C18_Cases :
           /\ case.name = "shifted backward" /\ out.value # C18_Formula(case)

\* the central formula at an interior node of 7
C18_Central ==
    /\ C18_Difference /\ out.error = NoError
    /\ Len(table.f) = 7 /\ call.i = 4
    /\ \E case \in C18_Cases :
           /\ case.name = "central" /\ case.applies /\ out.value = C18_Formula(case)

(***************************************************************************)
(* SpecApp: the App under the user's clicks and the callbacks of           *)
(* DataSection.  The text of a file or of the manual fields is the         *)
(* environment's: what parsing made of it is drawn from ParsedInputs.      *)
(* readAsText always delivers a string, so the branch of onload for other  *)
(* content is left out.  call records the handler that ran last and the    *)
(* state it ran in.                                                        *)
(***************************************************************************)
Parsed(x, f, Xs) == [error |-> NoError, table |-> Table(x, f), X |-> Xs]

ParsedInputs ==
    {Parsed(UniformGrid(5, Num(1)), ValuesB(5), <<Num(1), Num(2)>>),
     Parsed(UniformGrid(5, Num(1)), ValuesB(5), <<Frac(1, 2)>>),
     Parsed(UniformGrid(5, Num(1)), ValuesB(5), <<Num(-1)>>),
     Parsed(UniformGrid(3, Num(1)), ValuesA(3), <<Num(1)>>),
     Parsed(BentGrid(5), ValuesA(5), <<Num(1)>>),
     Parsed(UniformGrid(5, Num(1)), ValuesB(5), <<>>),
     Parsed(<<Num(0), Num(1), Num(1)>>, ValuesA(3), <<Num(1)>>),
     [error |-> TabularDataError("Row x is missing."),
      table |-> Table(<<>>, <<>>), X |-> <<>>]}

\* the files the user can select (the name is only displayed; what a read
\* delivers is drawn when it completes), and the reads that may be pending
\* at once
FileNames == {"data.txt"}
MaxReaders == 2

InitApp == Ready(Table(<<>>, <<>>), <<>>, <<>>)

HandleTaskChange ==
    /\ \E nextTask \in {"interpolation", "differentiation"} :
           /\ call' = [op |-> "handleTaskChange", before |-> app]
           /\ app' = handleTaskChange(app, nextTask)
    /\ UNCHANGED <<table, X, poly, out, pc, section>>

SetMethod ==
    /\ \E value \in offeredMethods(app.task) :
           /\ call' = [op |-> "setMethod", before |-> app]
           /\ app' = setMethod(app, value)
    /\ UNCHANGED <<table, X, poly, out, pc, section>>

HandleRun ==
    /\ ~disabledRun(app)
    /\ call' = [op |-> "handleRun", before |-> app]
    /\ app' = handleRun(app)
    /\ UNCHANGED <<table, X, poly, out, pc, section>>

\* both mode buttons are always rendered
HandleModeChange ==
    /\ \E nextMode \in {"file", "manual"} :
           /\ call' = [op |-> "handleModeChange", before |-> app]
           /\ section' = [section EXCEPT !.mode = nextMode,
                                         !.readers = superseded(@)]
           /\ app' = clearData(clearErrors(app))
    /\ UNCHANGED <<table, X, poly, out, pc>>

\* the file input is rendered in mode "file"; the handler returns after
\* readAsText, the read completes later
HandleFileChange ==
    /\ section.mode = "file"
    /\ Len(section.readers) < MaxReaders
    /\ \E file \in FileNames :
           /\ call' = [op |-> "handleFileChange", before |-> app]
           /\ section' = [section EXCEPT
                              !.fileName = Object(file),
                              !.readers = Append(superseded(@), FileReader(file))]
           /\ app' = clearErrors(app)
    /\ UNCHANGED <<table, X, poly, out, pc>>

\* any pending reader may complete next, whatever the user did meanwhile
ReaderOnLoad ==
    /\ \E i \in DOMAIN section.readers, parsed \in ParsedInputs :
           LET after == dataParsed(app, parsed)
           IN  /\ call' = [op |-> "reader.onload", before |-> app,
                           reader |-> section.readers[i], parsed |-> parsed]
               /\ section' = [section EXCEPT !.readers = completed(@, i)]
               /\ app' = IF ~after.table.null THEN clearErrors(after) ELSE after
    /\ UNCHANGED <<table, X, poly, out, pc>>

ReaderOnError ==
    /\ \E i \in DOMAIN section.readers :
           /\ call' = [op |-> "reader.onerror", before |-> app,
                       reader |-> section.readers[i]]
           /\ section' = [section EXCEPT !.readers = completed(@, i)]
           /\ app' = pushError(clearData(app), "Failed to read file.")
    /\ UNCHANGED <<table, X, poly, out, pc>>

HandleClearFile ==
    /\ section.mode = "file"
    /\ call' = [op |-> "handleClearFile", before |-> app]
    /\ section' = [section EXCEPT !.fileName = NullObject,
                                  !.readers = superseded(@)]
    /\ app' = clearErrors(clearData(app))
    /\ UNCHANGED <<table, X, poly, out, pc>>

\* the manual fields are rendered in mode "manual"
HandleApplyManual ==
    /\ section.mode = "manual"
    /\ \E parsed \in ParsedInputs :
           /\ call' = [op |-> "handleApplyManual", before |-> app,
                       parsed |-> parsed]
           /\ section' = [section EXCEPT !.readers = superseded(@)]
           /\ app' = dataParsed(clearErrors(app), parsed)
    /\ UNCHANGED <<table, X, poly, out, pc>>

HandleClearManual ==
    /\ section.mode = "manual"
    /\ call' = [op |-> "handleClearManual", before |-> app]
    /\ section' = [section EXCEPT !.readers = superseded(@)]
    /\ app' = clearErrors(clearData(app))
    /\ UNCHANGED <<table, X, poly, out, pc>>

NextApp ==
    \/ HandleTaskChange
    \/ SetMethod
    \/ HandleRun
    \/ HandleModeChange
    \/ HandleFileChange
    \/ ReaderOnLoad
    \/ ReaderOnError
    \/ HandleClearFile
    \/ HandleApplyManual
    \/ HandleClearManual

SpecApp == InitApp /\ [][NextApp]_vars

\* C20: every failed Compute (missing data, empty X, or an error thrown by
\* interpolate or differentiate) ends with exactly one message in the error
\* list and with interpolationResult and derivativeResult both null, so no
\* result computed earlier stays displayed.
C20_Thrown(a) ==
    IF a.task = "interpolation"
    THEN interpolate(a.method, a.table.value, a.X.value).error
    ELSE differentiate(a.method, a.table.value, a.X.value).error

C20_Fails(a) ==
    \/ a.table.null
    \/ a.X.null
    \/ Len(a.X.value) = 0
    \/ C20_Thrown(a) # NoError

C20_Cleared(a) ==
    /\ Len(a.errors) = 1
    /\ a.interpolationResult.null
    /\ a.derivativeResult.null

\* the handler in every state the App reaches, and every Compute that ran
C20_FailedRunClears ==
    /\ C20_Fails(app) => C20_Cleared(handleRun(app))
    /\ (call.op = "handleRun" /\ C20_Fails(call.before)) => C20_Cleared(app)

\* a derivative by interpolation5 is displayed, approximation5 is selected
\* and Compute throws: the derivative is gone and one message is shown
C20_Witness ==
    /\ call.op = "handleRun"
    /\ ~call.before.derivativeResult.null
    /\ call.before.method = "approximation5"
    /\ C20_Thrown(call.before) # NoError
    /\ app.errors = <<C20_Thrown(call.before).message>>
    /\ app.derivativeResult.null /\ app.interpolationResult.null

\* C21: evaluation points are optional at data entry: a file with valid x
\* and f rows and no X row (parseTabularFile gives X = []), or manual input
\* with an empty evaluation-points field, is accepted with the table set,
\* X = [] and no error shown; the missing points are reported by Compute.
C21_NoPointsEntered ==
    /\ call.op \in {"reader.onload", "handleApplyManual"}
    /\ call.parsed.error = NoError
    /\ validateTabular(call.parsed.table, DefaultTabularOptions) = NoError
    /\ call.parsed.X = <<>>

C21_PointsOptional ==
    C21_NoPointsEntered =>
        /\ ~app.table.null /\ app.table.value = call.parsed.table
        /\ ~app.X.null /\ app.X.value = <<>>
        /\ app.errors = <<>>

\* C22: buildNewtonCoefficients(x, f) returns coef with coef[0] = f[0] and
\* coef[k] = the divided difference f[x0, ..., xk] for every k in 0..n-1
\* (each update reads a coef[i-1] that still holds the value of the order
\* below), and evaluateNewtonAtPoint returns
\* coef[0] + coef[1](X - x0) + ... + coef[n-1](X - x0)...(X - x[n-2]).
C22_NewtonCall ==
    /\ pc = "done" /\ call.op = "interpolate" /\ call.method = "newton"
    /\ out.error = NoError

\* the divided difference f[x_i, ..., x_k] by its recursive definition
RECURSIVE C22_DividedDifference(_, _, _, _)
C22_DividedDifference(x, f, i, k) ==
    IF i = k THEN At(f, i)
    ELSE Div(Sub(C22_DividedDifference(x, f, i + 1, k),
                 C22_DividedDifference(x, f, i, k - 1)),
             Sub(At(x, k), At(x, i)))

\* (p - x0)(p - x1)...(p - x[m-1])
RECURSIVE C22_NodeProduct(_, _, _)
C22_NodeProduct(x, p, m) ==
    IF m = 0 THEN Num(1)
    ELSE Mul(C22_NodeProduct(x, p, m - 1), Sub(p, At(x, m - 1)))

\* the Newton form up to order k, term by term from the lowest order
RECURSIVE C22_NewtonForm(_, _, _, _)
C22_NewtonForm(x, f, p, k) ==
    LET term == Mul(C22_DividedDifference(x, f, 0, k), C22_NodeProduct(x, p, k))
    IN  IF k = 0 THEN term ELSE Add(C22_NewtonForm(x, f, p, k - 1), term)

C22_DividedDifferences ==
    C22_NewtonCall =>
        LET n == Len(table.x)
            coef == buildNewtonCoefficients(table.x, table.f)
        IN  /\ Len(coef) = n
            /\ At(coef, 0) = At(table.f, 0)
            /\ \A k \in 0..(n - 1) :
                   At(coef, k) = C22_DividedDifference(table.x, table.f, 0, k)
            /\ \A k \in 1..Len(X) :
                   out.F[k] = C22_NewtonForm(table.x, table.f, X[k], n - 1)

\* five nodes with a non-zero difference of the highest order, at a point
\* between the nodes
C22_Witness ==
    /\ C22_NewtonCall
    /\ Len(table.x) = 5
    /\ At(buildNewtonCoefficients(table.x, table.f), 4) # Num(0)
    /\ At(buildNewtonCoefficients(table.x, table.f), 4)
           = C22_DividedDifference(table.x, table.f, 0, 4)
    /\ X = <<Frac(1, 2)>>
    /\ out.F[1] = C22_NewtonForm(table.x, table.f, X[1], 4)

\* C23 (as stated): every call of buildInterpolationMethodsSummary with an
\* empty X raises the error of validatePointsToEvaluate.
C23_Summary == pc = "done" /\ call.op = "buildInterpolationMethodsSummary"

C23_TableError == validateTabular(table, DefaultTabularOptions)
C23_PointsError == validatePointsToEvaluate(table, X, FALSE)

C23_Raised ==
    /\ out.error.name = "TabularDataError"
    /\ out.rows = <<>> /\ out.meanAbsDiff = Null /\ out.maxAbsDiff = Null

C23_AsStated ==
    (C23_Summary /\ X = <<>>) => (C23_Raised /\ out.error = C23_PointsError)

\* C23 (amended): the zero-points case of buildInterpolationMethodsSummary is
\* unreachable: every call with an empty X raises a DataError before any row
\* or aggregate is computed, the one of validateTabular if the table is
\* invalid and the one of validatePointsToEvaluate otherwise; a call that
\* returns has one row per point of a non-empty X; an error of either
\* interpolation method leaves the function as thrown, never as null values.
C23_EmptyXRaises ==
    C23_Summary =>
        /\ X = <<>> =>
               /\ C23_Raised
               /\ out.error = IF C23_TableError # NoError THEN C23_TableError
                              ELSE C23_PointsError
        /\ out.error = NoError =>
               /\ Len(X) > 0 /\ Len(out.rows) = Len(X)
               /\ \A k \in 1..Len(X) :
                      /\ out.rows[k].lagrange # Null /\ out.rows[k].newton # Null
               /\ out.meanAbsDiff # Null
        /\ interpolateLagrange(table, X).error # NoError =>
               /\ C23_Raised
               /\ out.error = interpolateLagrange(table, X).error
        /\ (/\ interpolateLagrange(table, X).error = NoError
            /\ interpolateNewton(table, X).error # NoError) =>
               /\ C23_Raised
               /\ out.error = interpolateNewton(table, X).error

\* a valid table with no points: the error is the one of
\* validatePointsToEvaluate and nothing was computed
C23_Witness ==
    /\ C23_Summary /\ X = <<>>
    /\ C23_TableError = NoError /\ Len(table.x) = 5
    /\ out.error = TabularDataError("Points to evaluate (X) must be a non-empty array.")
    /\ out.rows = <<>> /\ out.meanAbsDiff = Null

\* C24: interpolation reproduces the table: on a valid table, the value at
\* X = x[i] is exactly f[i] for every node index i, by Lagrange (L_i is 1 and
\* every other L_j has a zero factor) and, in exact arithmetic, by Newton.
C24_Call ==
    /\ pc = "done" /\ call.op = "interpolate"
    /\ call.method \in {"lagrange", "newton"}
    /\ out.error = NoError

C24_ValidTable == validateTabular(table, DefaultTabularOptions) = NoError

C24_NodesReproduced ==
    /\ C24_Call =>
           \A k \in 1..Len(X), i \in 1..Len(table.x) :
               X[k] = table.x[i] => out.F[k] = table.f[i]
    /\ (C24_Call /\ C24_ValidTable) =>
           \A i \in 0..(Len(table.x) - 1) :
               /\ lagrangeBasis(table.x, At(table.x, i), i, 0, Num(1)) = Num(1)
               /\ \A j \in 0..(Len(table.x) - 1) :
                      j # i => lagrangeBasis(table.x, At(table.x, i), j, 0, Num(1)) = Num(0)
               /\ interpolateLagrangeAtPoint(table.x, table.f, At(table.x, i))
                      = At(table.f, i)
               /\ evaluateNewtonAtPoint(table.x,
                      buildNewtonCoefficients(table.x, table.f), At(table.x, i))
                      = At(table.f, i)

\* Newton on six nodes, asked for the value at the fourth node and at the
\* second
C24_Witness ==
    /\ C24_Call /\ call.method = "newton"
    /\ Len(table.x) = 6 /\ Len(X) = 2
    /\ X[1] = table.x[4] /\ out.F[1] = table.f[4] /\ table.f[4] # Num(0)
    /\ X[2] = table.x[2] /\ out.F[2] = table.f[2]

\* C25: approximation5 accepts a strict subset of what interpolation5
\* accepts: whenever differentiateByApproximation5 succeeds on (table, X),
\* differentiateByInterpolation5 succeeds too (and whenever interpolation5
\* throws, approximation5 throws); so no row of
\* buildDifferentiationMethodsSummary has a non-null approximation5 value
\* with a null interpolation5 value.
C25_Differentiate(method) ==
    pc = "done" /\ call.op = "differentiate" /\ call.method = method

C25_Summary == pc = "done" /\ call.op = "buildDifferentiationMethodsSummary"

C25_Approximation5Subset ==
    /\ (C25_Differentiate("approximation5") /\ out.error = NoError) =>
           LET other == differentiateByInterpolation5(table, X)
           IN  other.error = NoError /\ Len(other.Fd) = Len(out.Fd)
    /\ (C25_Differentiate("interpolation5") /\ out.error # NoError) =>
           differentiateByApproximation5(table, X).error # NoError
    /\ C25_Summary =>
           \A k \in 1..Len(out.rows) :
               out.rows[k].approximation5 # Null => out.rows[k].interpolation5 # Null

\* both methods succeed: a row with the two values
C25_Witness ==
    /\ C25_Summary /\ Len(out.rows) = 2
    /\ out.rows[1].approximation5 # Null /\ out.rows[1].interpolation5 # Null
    /\ out.rows[2].approximation5 # Null /\ out.rows[2].interpolation5 # Null

\* the subset is strict: interpolation5 alone succeeds on a non-uniform grid
C25_Strict ==
    /\ C25_Summary /\ Len(out.rows) >= 1
    /\ getApproximateStep(table.x, StepTolerance) = Null
    /\ out.rows[1].interpolation5 # Null /\ out.rows[1].approximation5 = Null

\* C26: for a table of at least 5 strictly increasing nodes and a point with
\* x[0] <= point <= x[last], the stencil start..start+4 returned by
\* get5PointStencilIndices contains the index of a node nearest to the point
\* and x[start] <= point <= x[start+4]: the point lies in the span of the
\* stencil on which interpolation5 builds its local polynomial.
C26_Stencil == pc = "done" /\ call.op = "get5PointStencilIndices"

C26_InRange ==
    /\ Len(table.x) >= 5
    /\ \A i \in 1..(Len(table.x) - 1) : Lt(table.x[i], table.x[i + 1])
    /\ Le(table.x[1], X[1]) /\ Le(X[1], table.x[Len(table.x)])

C26_Distance(j) == MathAbs(Sub(At(table.x, j), X[1]))

C26_IsNearest(m) ==
    \A j \in 0..(Len(table.x) - 1) : Le(C26_Distance(m), C26_Distance(j))

C26_PointInsideStencil ==
    (C26_Stencil /\ C26_InRange) =>
        /\ out.error = NoError
        /\ \A m \in 1..4 : out.value[m + 1] = out.value[m] + 1
        /\ \E m \in 1..5 :
               /\ out.value[m] = findNearestIndex(table.x, X[1]).value
               /\ C26_IsNearest(out.value[m])
        /\ Le(At(table.x, out.value[1]), X[1])
        /\ Le(X[1], At(table.x, out.value[5]))

\* 8 nodes, a point strictly between the last two nodes: the window is the
\* clamped one and the point lies inside its last interval
C26_Witness ==
    /\ C26_Stencil /\ C26_InRange
    /\ Len(table.x) = 8
    /\ Lt(table.x[7], X[1]) /\ Lt(X[1], table.x[8])
    /\ out.value = <<3, 4, 5, 6, 7>>

\* a point inside a centred window, strictly between two nodes
C26_Interior ==
    /\ C26_Stencil /\ C26_InRange
    /\ Len(table.x) = 8
    /\ out.value = <<1, 2, 3, 4, 5>>
    /\ Lt(table.x[4], X[1]) /\ Lt(X[1], table.x[5])

\* C27: in every reachable state of the App at most one of
\* interpolationResult and derivativeResult is non-null, a non-null result is
\* of the kind of the selected task, and it was computed (by a method of that
\* task) from the table and X held in state; every task change and every
\* data change leaves both results null.
C27_InterpolationOfState ==
    /\ app.task = "interpolation"
    /\ ~app.table.null /\ ~app.X.null
    /\ \E method \in offeredMethods("interpolation") :
           \E result \in {interpolate(method, app.table.value, app.X.value)} :
               /\ result.error = NoError
               /\ app.interpolationResult.value = [X |-> result.X, F |-> result.F]
    /\ app.interpolationResult.value.X = app.X.value

C27_DerivativeOfState ==
    /\ app.task = "differentiation"
    /\ ~app.table.null /\ ~app.X.null
    /\ \E method \in offeredMethods("differentiation") :
           \E result \in {differentiate(method, app.table.value, app.X.value)} :
               /\ result.error = NoError
               /\ app.derivativeResult.value = [X |-> result.X, Fd |-> result.Fd]
    /\ app.derivativeResult.value.X = app.X.value

C27_NoResult(a) == a.interpolationResult.null /\ a.derivativeResult.null

C27_DataOps ==
    {"handleModeChange", "reader.onload", "reader.onerror", "handleClearFile",
     "handleApplyManual", "handleClearManual"}

C27_ResultsCurrent ==
    /\ app.interpolationResult.null \/ app.derivativeResult.null
    /\ ~app.interpolationResult.null => C27_InterpolationOfState
    /\ ~app.derivativeResult.null => C27_DerivativeOfState
    /\ call.op \in C27_DataOps \cup {"handleTaskChange"} => C27_NoResult(app)
    /\ \A nextTask \in {"interpolation", "differentiation"} :
           C27_NoResult(handleTaskChange(app, nextTask))
    /\ C27_NoResult(handleDataChange(app, app.table, app.X))
    /\ C27_NoResult(clearData(app))

\* a file is loaded over a displayed derivative: the derivative is gone with
\* the data it was computed from
C27_Witness ==
    /\ call.op = "reader.onload"
    /\ ~call.before.derivativeResult.null
    /\ ~call.before.table.null /\ ~app.table.null
    /\ app.table.value # call.before.table.value
    /\ C27_NoResult(app)

\* a result computed by the method selected before stays displayed after
\* setMethod
C27_OtherMethod ==
    /\ call.op = "setMethod"
    /\ ~app.derivativeResult.null
    /\ app.method = "approximation5"
    /\ differentiate(app.method, app.table.value, app.X.value).error # NoError

\* C28: in every reachable state of the App the selected method belongs to
\* the selected task (interpolation: lagrange or newton; differentiation:
\* interpolation5 or approximation5); a task change sets the method to the
\* task's default in the same step, the selector offers the task's methods
\* only, and no Compute raises MethodNotSupportedError.
C28_MethodsOf(task) ==
    IF task = "interpolation" THEN {"lagrange", "newton"}
    ELSE {"interpolation5", "approximation5"}

C28_Thrown(a) ==
    IF a.task = "interpolation"
    THEN interpolate(a.method, a.table.value, a.X.value).error
    ELSE differentiate(a.method, a.table.value, a.X.value).error

C28_MethodOfTask ==
    /\ app.task \in {"interpolation", "differentiation"}
    /\ app.method \in C28_MethodsOf(app.task)
    /\ offeredMethods(app.task) = C28_MethodsOf(app.task)
    /\ call.op = "handleTaskChange" =>
           app.method = (IF app.task = "interpolation" THEN "lagrange"
                         ELSE "interpolation5")
    /\ call.op = "handleRun" =>
           /\ call.before.method \in C28_MethodsOf(call.before.task)
           /\ C28_Thrown(call.before).name # "MethodNotSupportedError"

\* approximation5 had been selected and Compute ran for it (and raised a data
\* error, not MethodNotSupportedError)
C28_Witness ==
    /\ call.op = "handleRun"
    /\ call.before.task = "differentiation"
    /\ call.before.method = "approximation5"
    /\ C28_Thrown(call.before).name = "TabularDataError"
    /\ app.errors = <<C28_Thrown(call.before).message>>

\* the task changed while newton was selected
C28_Reset ==
    /\ call.op = "handleTaskChange"
    /\ call.before.method = "newton"
    /\ app.task = "differentiation" /\ app.method = "interpolation5"

\* C29: in every reachable state of the App, table and X are both null or
\* both non-null, and when non-null the table passes validateTabular (at
\* least 2 nodes) and X passes validatePointsToEvaluate (non-empty, finite):
\* DataSection reports data only after both validations and reports
\* (null, null) on every failure and every clear, so handleRun never takes
\* its empty-X branch.
C29_Validated(a) ==
    /\ validateTabular(a.table.value, DefaultTabularOptions) = NoError
    /\ Len(a.table.value.x) >= 2
    /\ Len(a.table.value.x) = Len(a.table.value.f)
    /\ validatePointsToEvaluate(a.table.value, a.X.value, FALSE) = NoError
    /\ Len(a.X.value) > 0
    /\ \A k \in 1..Len(a.X.value) : isFinite(a.X.value[k])

C29_Accepted(parsed) ==
    /\ parsed.error = NoError
    /\ validateTabular(parsed.table, DefaultTabularOptions) = NoError
    /\ validatePointsToEvaluate(parsed.table, parsed.X, FALSE) = NoError

C29_Loaded ==
    /\ call.op = "reader.onload" /\ C29_Accepted(call.parsed)
    /\ ~app.table.null /\ Len(app.X.value) = 2

\* C30: the data held by the App comes from the user's most recent input
\* action: once the user has cleared the file, switched the input mode,
\* applied manual data or selected another file, the completion (onload or
\* onerror) of a file read started before that never changes table, X or
\* the error list, under every interleaving.
C30_StaleCompletion ==
    /\ call.op \in {"reader.onload", "reader.onerror"}
    /\ ~call.reader.current

C30_Same(a, b) ==
    /\ a.null = b.null
    /\ ~a.null => a.value = b.value

C30_StaleReadIgnored ==
    C30_StaleCompletion =>
        /\ C30_Same(app.table, call.before.table)
        /\ C30_Same(app.X, call.before.X)
        /\ app.errors = call.before.errors

\* a file was selected and then cleared before its read completed; the
\* read's onload stores the file's table and X although no file is selected
C30_ClearedFileLoaded ==
    /\ C30_StaleCompletion /\ call.op = "reader.onload"
    /\ section.mode = "file" /\ section.fileName.null
    /\ call.before.table.null /\ ~app.table.null
    /\ app.table.value = call.parsed.table /\ app.X.value = call.parsed.X

\* manual data was applied while a read was pending; the read's onerror
\* then replaces the applied data by an error message
C30_ManualDataLost ==
    /\ C30_StaleCompletion /\ call.op = "reader.onerror"
    /\ section.mode = "manual"
    /\ ~call.before.table.null /\ app.table.null
    /\ app.errors = <<"Failed to read file.">>

====
